---- MODULE Spec2Model ----
(***************************************************************************)
(* Model of NyayAI: the AI provider adapters and factory                   *)
(* (src/ai_providers.py): four adapters that talk to one OpenRouter        *)
(* gateway, and create_ai_provider, which builds and probes an adapter;    *)
(* the statute store (src/database.py); the PDF text extraction            *)
(* (src/pdf_processor.py); and the script of the application (src/app.py), *)
(* one run of the script being one step.                                   *)
(*                                                                         *)
(* Strings the code transforms (provider names, credentials) are tuples of *)
(* one-character strings, so lower() and strip() are computed.  Floats are *)
(* kept in hundredths (0.3 is 30).                                         *)
(***************************************************************************)
EXTENDS Integers, Sequences, FiniteSets, TLC

VARIABLES
    adapters,    \* the live adapter instances, by instance number
    sessions,    \* number of requests.Session objects created so far
    failedInit,  \* history: instances left not ready by a failed initialize()
    succeeded,   \* history: instances on which an initialize() returned True
    last,        \* the last call: operation, inputs, outcome, requests sent
    db,          \* the tables of the database file, each the sequence of its rows
    conns,       \* the NyayAIDatabase constructions under way and how far each is
    found,       \* the last query on the store: its operation, argument and result
    pdf,         \* the last extract_text_from_pdf call: its arguments and result
    session_state,  \* st.session_state of one browser session
    query_params,   \* st.query_params: the value of 'page', if present
    run          \* the last run of the script: what triggered it and how it ended

adapterVars == <<adapters, sessions, failedInit, succeeded, last>>
storeVars == <<db, conns, found>>
appVars == <<session_state, query_params, run>>
vars == <<adapters, sessions, failedInit, succeeded, last, db, conns, found, pdf,
          session_state, query_params, run>>

----------------------------------------------------------------------------
(* Bounds of the model *)

MaxAdapters == 1     \* adapter instances alive at once
MaxSessions == 2     \* requests.Session objects created in a run
MaxPool == 2         \* adapter instances alive at once, where instances are compared
MaxPoolSessions == 3 \* requests.Session objects created in such a run
MaxConstructions == 3   \* NyayAIDatabase constructions on one database file
MaxHandlers == 3      \* AIHandler objects constructed in a run
MaxQuestions == 2     \* questions asked in a session, and rows of query_history

----------------------------------------------------------------------------
(* Values *)

None == "None"
True == "True"
False == "False"

Min(S) == CHOOSE x \in S : \A y \in S : x <= y
Max(S) == CHOOSE x \in S : \A y \in S : x >= y

\* str.lower(), on the letters the inputs use
ToLower ==
    [c \in {"G", "E", "M", "I", "N", "O", "P", "A", "D", "S", "K", "T", "R"} |->
        CASE c = "G" -> "g" [] c = "E" -> "e" [] c = "M" -> "m" [] c = "I" -> "i"
          [] c = "N" -> "n" [] c = "O" -> "o" [] c = "P" -> "p" [] c = "A" -> "a"
          [] c = "D" -> "d" [] c = "S" -> "s" [] c = "K" -> "k" [] c = "T" -> "t"
          [] c = "R" -> "r"]

Lower_Identity(s) == s

Lower(s) == [i \in DOMAIN s |-> IF s[i] \in DOMAIN ToLower THEN ToLower[s[i]] ELSE s[i]]

Whitespace == {" ", "\t", "\n"}

Strip_Identity(s) == s

\* str.strip(): drops the leading and trailing whitespace, keeps the inner
Strip(s) ==
    LET keep == {i \in DOMAIN s : s[i] \notin Whitespace}
    IN  IF keep = {} THEN <<>> ELSE SubSeq(s, Min(keep), Max(keep))

\* config.MODEL_CONFIG, in hundredths for the two floats
MODEL_CONFIG == [temperature |-> 30, max_tokens |-> 300, top_p |-> 80]

GATEWAY_URL == "https://openrouter.ai/api/v1/chat/completions"
REFERER == "https://github.com/copilot"

\* the four adapter classes
AdapterClasses == {"GeminiProvider", "OpenAIProvider", "DeepSeekProvider", "NemotronProvider"}

ProbeModelOf_Stale(cls) ==
    CASE cls = "GeminiProvider" -> "google/gemini-pro-1.5"
      [] cls = "OpenAIProvider" -> "openai/gpt-3.5-turbo"
      [] cls = "DeepSeekProvider" -> "deepseek/deepseek-chat"
      [] cls = "NemotronProvider" -> "nvidia/nemotron-nano-12b-v2-vl:free"

\* the model identifier each adapter class sends in its probe
ProbeModelOf(cls) ==
    CASE cls = "GeminiProvider" -> "google/gemini-pro-1.5"
      [] cls = "OpenAIProvider" -> "openai/gpt-3.5-turbo"
      [] cls = "DeepSeekProvider" -> "deepseek/deepseek-chat-v3.1"
      [] cls = "NemotronProvider" -> "nvidia/nemotron-nano-12b-v2-vl:free"

\* the model identifier each adapter class sends in generate_content
ModelOf(cls) ==
    CASE cls = "GeminiProvider" -> "google/gemini-pro-1.5"
      [] cls = "OpenAIProvider" -> "openai/gpt-3.5-turbo"
      [] cls = "DeepSeekProvider" -> "deepseek/deepseek-chat-v3.1"
      [] cls = "NemotronProvider" -> "nvidia/nemotron-nano-12b-v2-vl:free"

\* the providers table of create_ai_provider
providers ==
    [k \in {<<"g", "e", "m", "i", "n", "i">>,
            <<"o", "p", "e", "n", "a", "i">>,
            <<"d", "e", "e", "p", "s", "e", "e", "k">>,
            <<"n", "e", "m", "o", "t", "r", "o", "n">>} |->
        CASE k = <<"g", "e", "m", "i", "n", "i">> -> "GeminiProvider"
          [] k = <<"o", "p", "e", "n", "a", "i">> -> "OpenAIProvider"
          [] k = <<"d", "e", "e", "p", "s", "e", "e", "k">> -> "DeepSeekProvider"
          [] k = <<"n", "e", "m", "o", "t", "r", "o", "n">> -> "NemotronProvider"]

ProviderClassFor_Default(provider_type) ==
    IF Lower(provider_type) \in DOMAIN providers
    THEN providers[Lower(provider_type)] ELSE "GeminiProvider"

\* providers.get(provider_type.lower())
ProviderClassFor(provider_type) ==
    IF Lower(provider_type) \in DOMAIN providers
    THEN providers[Lower(provider_type)] ELSE None

----------------------------------------------------------------------------
(* The gateway: what one POST can come back with *)

Texts == {"X", "Y"}

\* one element of a response's choices array
NoMessageChoice == [message |-> FALSE, has_content |-> FALSE, content |-> None]
NoContentChoice == [message |-> TRUE, has_content |-> FALSE, content |-> None]
TextChoice(t) == [message |-> TRUE, has_content |-> TRUE, content |-> t]
ChoiceShapes == {NoMessageChoice, NoContentChoice} \cup {TextChoice(t) : t \in Texts}

\* the choices arrays the gateway answers with
ChoiceArrays ==
    {<<>>, <<TextChoice("X")>>, <<TextChoice("Y"), TextChoice("X")>>,
     <<TextChoice("X"), NoContentChoice>>, <<NoContentChoice, TextChoice("X")>>,
     <<NoMessageChoice>>}

\* a parsed JSON body: its top-level type ("array1" a non-empty array,
\* "object0" the empty object), the type of its "choices" member and, when
\* that is an array, its elements
JsonBody(top, choices, items) == [top |-> top, choices |-> choices, items |-> items]
NullBody == JsonBody("null", "absent", <<>>)
Bodies ==
    {JsonBody(t, "absent", <<>>) : t \in {"null", "array1", "object0", "object"}}
    \cup {JsonBody("object", "string", <<>>)}
    \cup {JsonBody("object", "array", items) : items \in ChoiceArrays}

\* the outcome of one POST: a transport fault (no response), or a response
\* with a status whose body json() parses or rejects
GatewayOutcome(net, status, parse, body) ==
    [net |-> net, status |-> status, parse |-> parse, body |-> body]
NoOutcome == GatewayOutcome("none", 0, "ok", NullBody)
Outcomes ==
    {GatewayOutcome("fault", 0, "ok", NullBody)}
    \cup {GatewayOutcome("response", s, "ok", NullBody) : s \in {401, 500}}
    \cup {GatewayOutcome("response", 200, p, NullBody) :
              p \in {"JSONDecodeError", "ValueError"}}
    \cup {GatewayOutcome("response", 200, "ok", b) : b \in Bodies}

\* Response.raise_for_status(): raises HTTPError for 4xx and 5xx
raise_for_status(status) == status >= 400 /\ status < 600

\* truth value of response_data.get("choices") on a JSON object
ChoicesTruthy(body) ==
    CASE body.choices = "array" -> Len(body.items) > 0
      [] body.choices = "string" -> TRUE
      [] OTHER -> FALSE

\* truth value of the parsed body itself (generate_content tests it first)
BodyTruthy(body) == body.top \in {"array1", "object"}

\* the exception the calls up to and including json() end with, or "none"
TransportException(gw) ==
    IF gw.net = "fault" THEN "ConnectionError"
    ELSE IF raise_for_status(gw.status) THEN "HTTPError"
    ELSE IF gw.parse # "ok" THEN gw.parse
    ELSE "none"

\* exceptions of the requests library carry a response attribute; it is None
\* unless the exception was raised from a response (raise_for_status)
HasResponseAttr(exc) == exc \in {"ConnectionError", "HTTPError", "JSONDecodeError"}
ResponseIsNone(exc) == exc \in {"ConnectionError", "JSONDecodeError"}

HandlerRaises_Reraise(exc) == exc

\* the except block: prints, and reads e.response.text when e has a response
\* attribute, which raises AttributeError when that attribute is None
HandlerRaises(exc) ==
    IF exc # "none" /\ HasResponseAttr(exc) /\ ResponseIsNone(exc)
    THEN "AttributeError" ELSE "none"

----------------------------------------------------------------------------
(* Adapter instances *)

NoSession == [id |-> 0, referer |-> "", authorization |-> <<>>]

Bearer == <<"B", "e", "a", "r", "e", "r", " ">>

\* __init__: the credential is stripped, no session, not initialized
NewAdapter(cls, api_key) ==
    [cls |-> cls, api_key |-> Strip(api_key), session |-> NoSession,
     initialized |-> FALSE]

NewSession_Shared(a, id) ==
    [id |-> 1, referer |-> REFERER, authorization |-> Bearer \o a.api_key]

\* requests.Session() followed by session.headers.update({...}); id is the
\* identity of the new session object
NewSession(a, id) ==
    [id |-> id, referer |-> REFERER, authorization |-> Bearer \o a.api_key]

IsAvailable_SessionOnly(a) == a.session # NoSession

\* is_available(): self._initialized and self.session is not None
IsAvailable(a) == a.initialized /\ a.session # NoSession

\* one POST as the gateway receives it: the session's headers and the JSON body
\* (keys: the members the body has; a member it lacks reads 0 here)
Request(session, keys, model, content, temperature, max_tokens, top_p) ==
    [url |-> GATEWAY_URL, referer |-> session.referer,
     authorization |-> session.authorization, keys |-> keys, model |-> model,
     messages |-> <<[role |-> "user", content |-> content]>>,
     temperature |-> temperature, max_tokens |-> max_tokens, top_p |-> top_p]

ProbeRequest_ConfigBudget(a, session) ==
    Request(session, {"model", "messages", "temperature", "max_tokens"},
            ProbeModelOf(a.cls), "Test", MODEL_CONFIG.temperature,
            MODEL_CONFIG.max_tokens, 0)

\* the probe of initialize()
ProbeRequest(a, session) ==
    Request(session, {"model", "messages", "temperature", "max_tokens"},
            ProbeModelOf(a.cls), "Test", MODEL_CONFIG.temperature, 10, 0)

ProbeSent_Retry(a, session) == <<ProbeRequest(a, session), ProbeRequest(a, session)>>

\* the POSTs of one initialize(): the probe, once
ProbeSent(a, session) == <<ProbeRequest(a, session)>>

GenerateRequest_NoTopP(a, prompt) ==
    IF a.cls \in {"GeminiProvider", "OpenAIProvider"}
    THEN Request(a.session, {"model", "messages", "temperature", "max_tokens"},
                 ModelOf(a.cls), prompt, MODEL_CONFIG.temperature,
                 MODEL_CONFIG.max_tokens, 0)
    ELSE Request(a.session,
                 {"model", "messages", "temperature", "max_tokens", "top_p", "headers"},
                 ModelOf(a.cls), prompt, 70, 2000, 95)

GenerateRequest_AllDefaults(a, prompt) ==
    Request(a.session, {"model", "messages", "temperature", "max_tokens", "top_p"},
            ModelOf(a.cls), prompt, MODEL_CONFIG.temperature,
            MODEL_CONFIG.max_tokens, MODEL_CONFIG.top_p)

\* the request of generate_content(prompt)
GenerateRequest(a, prompt) ==
    IF a.cls \in {"GeminiProvider", "OpenAIProvider"}
    THEN Request(a.session, {"model", "messages", "temperature", "max_tokens", "top_p"},
                 ModelOf(a.cls), prompt, MODEL_CONFIG.temperature,
                 MODEL_CONFIG.max_tokens, MODEL_CONFIG.top_p)
    ELSE Request(a.session,
                 {"model", "messages", "temperature", "max_tokens", "top_p", "headers"},
                 ModelOf(a.cls), prompt, 70, 2000, 95)

GenerateSent_Retry(a, prompt) == <<GenerateRequest(a, prompt), GenerateRequest(a, prompt)>>

\* the POSTs of one generate_content() on an initialized adapter: one
GenerateSent(a, prompt) == <<GenerateRequest(a, prompt)>>

\* the try block of initialize() after the POST: the exception it ends with
InitializeException(gw) ==
    IF TransportException(gw) # "none" THEN TransportException(gw)
    ELSE IF gw.body.top # "object" /\ gw.body.top # "object0" THEN "AttributeError"
    ELSE "none"

ProbeAccepted_Strict(gw) ==
    /\ InitializeException(gw) = "none"
    /\ gw.body.choices = "array"
    /\ gw.body.items # <<>>
    /\ gw.body.items[1].message
    /\ gw.body.items[1].has_content

\* if response_data.get("choices"): the probe is accepted
ProbeAccepted(gw) == InitializeException(gw) = "none" /\ ChoicesTruthy(gw.body)

InitializedAfter_Reset(a, gw) == ProbeAccepted(gw)

\* self._initialized after initialize(): set on an accepted probe, else kept
InitializedAfter(a, gw) == IF ProbeAccepted(gw) THEN TRUE ELSE a.initialized

\* initialize() against outcome gw, with id the identity of the new session:
\* the adapter afterwards, the value returned, the exception that escapes and
\* the requests sent
InitializeCall(a, gw, id) ==
    LET session == NewSession(a, id)
        exc == InitializeException(gw)
    IN  [adapter |-> [a EXCEPT !.session = session,
                               !.initialized = InitializedAfter(a, gw)],
         ret |-> IF ProbeAccepted(gw) THEN True
                 ELSE IF HandlerRaises(exc) # "none" THEN "raised" ELSE False,
         exc |-> IF ProbeAccepted(gw) THEN "none" ELSE HandlerRaises(exc),
         sent |-> ProbeSent(a, session)]

\* the try block of generate_content() after the POST: the exception it ends with
GenerateException(gw) ==
    IF TransportException(gw) # "none" THEN TransportException(gw)
    ELSE IF ~BodyTruthy(gw.body) THEN "none"
    ELSE IF gw.body.top = "array1" THEN "AttributeError"
    ELSE IF ~ChoicesTruthy(gw.body) THEN "none"
    ELSE IF gw.body.choices = "string" THEN "TypeError"
    ELSE IF ~gw.body.items[1].message THEN "KeyError"
    ELSE IF ~gw.body.items[1].has_content THEN "KeyError"
    ELSE "none"

GenerateValue_LastChoice(gw) ==
    IF BodyTruthy(gw.body) /\ ChoicesTruthy(gw.body)
    THEN gw.body.items[Len(gw.body.items)].content ELSE None

GenerateValue_EmptyText(gw) ==
    IF BodyTruthy(gw.body) /\ ChoicesTruthy(gw.body)
    THEN gw.body.items[1].content ELSE ""

\* response_json["choices"][0]["message"]["content"], or None when the body
\* or its choices are falsy
GenerateValue(gw) ==
    IF BodyTruthy(gw.body) /\ ChoicesTruthy(gw.body)
    THEN gw.body.items[1].content ELSE None

NotInitialized_NoSession(a) == a.session = NoSession

\* if not self._initialized: return None
NotInitialized(a) == ~a.initialized

GenerateCall_CloseOnError(a, prompt, gw) ==
    IF NotInitialized(a)
    THEN [adapter |-> a, ret |-> None, exc |-> "none", sent |-> <<>>]
    ELSE LET exc == GenerateException(gw)
         IN  [adapter |-> IF exc = "none" THEN a ELSE [a EXCEPT !.session = NoSession],
              ret |-> IF exc = "none" THEN GenerateValue(gw)
                      ELSE IF HandlerRaises(exc) # "none" THEN "raised" ELSE None,
              exc |-> HandlerRaises(exc),
              sent |-> GenerateSent(a, prompt)]

\* generate_content(prompt) against outcome gw
GenerateCall(a, prompt, gw) ==
    IF NotInitialized(a)
    THEN [adapter |-> a, ret |-> None, exc |-> "none", sent |-> <<>>]
    ELSE LET exc == GenerateException(gw)
         IN  [adapter |-> a,
              ret |-> IF exc = "none" THEN GenerateValue(gw)
                      ELSE IF HandlerRaises(exc) # "none" THEN "raised" ELSE None,
              exc |-> HandlerRaises(exc),
              sent |-> GenerateSent(a, prompt)]

----------------------------------------------------------------------------
(* The configuration sidebar of the application *)

\* provider_models of main(): the model the sidebar shows for each backend
provider_models ==
    [label \in {<<"G", "e", "m", "i", "n", "i">>, <<"O", "p", "e", "n", "A", "I">>,
                <<"D", "e", "e", "p", "S", "e", "e", "k">>,
                <<"N", "e", "m", "o", "t", "r", "o", "n">>} |->
        CASE label = <<"G", "e", "m", "i", "n", "i">> -> "google/gemini-pro-1.5"
          [] label = <<"O", "p", "e", "n", "A", "I">> -> "openai/gpt-3.5-turbo"
          [] label = <<"D", "e", "e", "p", "S", "e", "e", "k">> -> "deepseek/deepseek-chat-v3.1"
          [] label = <<"N", "e", "m", "o", "t", "r", "o", "n">> ->
                 "nvidia/nemotron-nano-12b-v2-vl:free"]

----------------------------------------------------------------------------
(* Inputs *)

\* backend names a caller may pass to create_ai_provider
ProviderTypes ==
    {<<"g", "e", "m", "i", "n", "i">>, <<"G", "e", "m", "i", "n", "i">>,
     <<"O", "p", "e", "n", "A", "I">>,
     <<"D", "E", "E", "P", "S", "E", "E", "K">>,
     <<"N", "e", "m", "o", "t", "r", "o", "n">>,
     <<"c", "l", "a", "u", "d", "e">>, <<"g", "e", "m", "i", "n", "i", " ">>}

\* credentials a caller may pass
Credentials == {<<"k">>, <<" ", "k", "\n">>}

Prompts == {"anything", ""}

----------------------------------------------------------------------------
(* The state outside the adapters, before anything ran *)

\* the database file before any NyayAIDatabase was constructed: no row
EmptyTables == [ipc_sections |-> <<>>, legal_templates |-> <<>>, query_history |-> <<>>]

\* the threads (one per browser session) that may construct a NyayAIDatabase
\* on the same file at the same time
Constructors == {1, 2}

NoStore ==
    /\ db = EmptyTables
    /\ conns = [pc |-> [c \in Constructors |-> "idle"], attempts |-> 0, instances |-> 0]
    /\ found = [op |-> "none", query |-> <<>>, rows |-> <<>>]

NoExtraction ==
    pdf = [op |-> "none", available |-> TRUE,
           document |-> [readable |-> TRUE, pages |-> <<>>],
           max_pages |-> [none |-> TRUE, pages |-> 0],
           preview_mode |-> FALSE, text |-> [kind |-> "none", chars |-> 0, blank |-> TRUE],
           success |-> FALSE, raised |-> FALSE, pages |-> <<>>, total_pages |-> 0]

\* an optional value: <<>> when it is absent (None, or no such member of
\* st.session_state or st.query_params), <<v>> when it is v
Absent == <<>>
Present(v) == <<v>>
IsPresent(o) == Len(o) = 1
ValueOf(o) == o[1]

\* the six page names of main(), as tuples of characters; the pictograph each
\* name starts with is one character, written here by a name in brackets
Home ==
    <<"[house]", " ", "H", "o", "m", "e">>
LegalQA ==
    <<"[speech]", " ", "L", "e", "g", "a", "l", " ", "Q", "&", "A">>
DocumentAnalysis ==
    <<"[page]", " ", "D", "o", "c", "u", "m", "e", "n", "t", " ", "A", "n", "a", "l", "y",
    "s", "i", "s">>
IPCFlashcards ==
    <<"[joker]", " ", "I", "P", "C", " ", "F", "l", "a", "s", "h", "c", "a", "r", "d", "s">>
IPCSections ==
    <<"[books]", " ", "I", "P", "C", " ", "S", "e", "c", "t", "i", "o", "n", "s">>
LegalTemplates ==
    <<"[clipboard]", " ", "L", "e", "g", "a", "l", " ", "T", "e", "m", "p", "l", "a", "t",
    "e", "s">>

page_options == <<Home, LegalQA, DocumentAnalysis, IPCFlashcards, IPCSections, LegalTemplates>>

\* st.session_state once the first lines of the script have set their defaults
\* (chat_history and the selectbox's page_selector are not set yet)
FreshSession ==
    [current_page |-> Home, api_key_configured |-> FALSE, ai_handler |-> Absent,
     page_selector |-> Absent, chat_history |-> Absent]

\* the record of one run of the script: what triggered it; how it ended
\* ("rendered": main() ran to its end, "returned": an early return, "rerun":
\* st.rerun(), "error": the except branch of main()) and at which line; the
\* controls it rendered; current_page as the dispatch read it and the page
\* renderers it called; what update_configuration returned; whether an
\* AIHandler was constructed, and how many were so far; current_page and the
\* 'page' parameter as the run found them; the line at which the run before
\* it ended; the question submitted and what the INSERT of save_query would
\* do, the sections put in the question's context, the response, and the chat
\* entries and query-history rows the run added
Run(trigger, handlers, current_page, param, after) ==
    [trigger |-> trigger, ended |-> "none", at |-> 0, after |-> after, controls |-> {},
     dispatched |-> Absent, renderers |-> <<>>, update_configuration |-> "none",
     created |-> FALSE, handlers |-> handlers, page_before |-> current_page,
     param |-> param, user_query |-> <<>>, save |-> "none", context |-> <<>>,
     response |-> "none", appended |-> 0, saved |-> 0]

\* no browser session yet: the defaults, no query parameter, no run
NoRun == Run("none", 0, Home, Absent, 0)

NoApplication ==
    /\ session_state = FreshSession
    /\ query_params = Absent
    /\ run = NoRun

----------------------------------------------------------------------------
(* The calls *)

\* the record of a call: the operation, the instance it ran on (0: none), its
\* arguments, the outcome the gateway had for it, the value returned ("raised": none,
\* an exception escaped), the escaped exception, the requests sent and, for
\* the factory, the class constructed and what its initialize() returned
Call(op, self, provider_type, prompt, gw, ret, exc, sent, constructed, init_ret) ==
    [op |-> op, self |-> self, provider_type |-> provider_type, prompt |-> prompt,
     gw |-> gw, ret |-> ret, exc |-> exc, sent |-> sent,
     constructed |-> constructed, init_ret |-> init_ret, api_key |-> <<>>]

\* a call that takes a credential: the record also keeps it as it was passed
CallWithKey(call, api_key) == [call EXCEPT !.api_key = api_key]

\* the part of the input space a specification explores: how many instances
\* and sessions it lets exist, and the classes, backend names, credentials and
\* gateway outcomes it draws from
Scope(max_adapters, max_sessions, classes, provider_types, api_keys, outcomes) ==
    [max_adapters |-> max_adapters, max_sessions |-> max_sessions,
     classes |-> classes, provider_types |-> provider_types,
     api_keys |-> api_keys, outcomes |-> outcomes]

\* every input, over a pool of MaxAdapters instances
Everything ==
    Scope(MaxAdapters, MaxSessions, AdapterClasses, ProviderTypes, Credentials, Outcomes)

\* no adapter instance exists and nothing has been called
NoAdapters ==
    /\ adapters = <<>>
    /\ sessions = 0
    /\ failedInit = {}
    /\ succeeded = {}
    /\ last = Call("none", 0, <<>>, "", NoOutcome, None, "none", <<>>, None, None)

Init ==
    /\ NoAdapters
    /\ NoStore
    /\ NoExtraction
    /\ NoApplication

\* a caller constructs an adapter directly: cls(api_key)
ConstructIn(s) ==
    \E cls \in s.classes, api_key \in s.api_keys :
        /\ Len(adapters) < s.max_adapters
        /\ adapters' = Append(adapters, NewAdapter(cls, api_key))
        /\ last' = CallWithKey(Call("__init__", Len(adapters) + 1, <<>>, "", NoOutcome,
                                    None, "none", <<>>, cls, None), api_key)
        /\ UNCHANGED <<sessions, failedInit, succeeded>>
        /\ UNCHANGED <<storeVars, pdf, appVars>>

Construct == ConstructIn(Everything)

\* adapter.initialize()
initializeIn(s) ==
    \E i \in DOMAIN adapters, gw \in s.outcomes :
        /\ sessions < s.max_sessions
        /\ LET r == InitializeCall(adapters[i], gw, sessions + 1)
           IN  /\ adapters' = [adapters EXCEPT ![i] = r.adapter]
               /\ sessions' = sessions + 1
               /\ succeeded' = IF r.ret = True THEN succeeded \cup {i} ELSE succeeded
               /\ failedInit' = IF r.ret # True /\ ~r.adapter.initialized
                                THEN failedInit \cup {i} ELSE failedInit
               /\ last' = Call("initialize", i, <<>>, "", gw, r.ret, r.exc, r.sent,
                               None, None)
               /\ UNCHANGED <<storeVars, pdf, appVars>>

initialize == initializeIn(Everything)

\* adapter.generate_content(prompt)
generate_contentIn(s) ==
    \E i \in DOMAIN adapters, prompt \in Prompts :
      \E gw \in IF NotInitialized(adapters[i]) THEN {NoOutcome} ELSE s.outcomes :
        LET r == GenerateCall(adapters[i], prompt, gw)
        IN  /\ adapters' = [adapters EXCEPT ![i] = r.adapter]
            /\ last' = Call("generate_content", i, <<>>, prompt,
                            IF r.sent = <<>> THEN NoOutcome ELSE gw,
                            r.ret, r.exc, r.sent, None, None)
            /\ UNCHANGED <<sessions, failedInit, succeeded>>
            /\ UNCHANGED <<storeVars, pdf, appVars>>

generate_content == generate_contentIn(Everything)

\* adapter.is_available()
is_available ==
    \E i \in DOMAIN adapters :
        /\ last' = Call("is_available", i, <<>>, "", NoOutcome,
                        IF IsAvailable(adapters[i]) THEN True ELSE False,
                        "none", <<>>, None, None)
        /\ UNCHANGED <<adapters, sessions, failedInit, succeeded>>
        /\ UNCHANGED <<storeVars, pdf, appVars>>

\* what create_ai_provider hands back after provider.initialize() returned ret
FactoryReturn(ret) == IF ret = True THEN "provider" ELSE None

\* create_ai_provider(provider_type, api_key): an unknown name returns None;
\* otherwise the adapter is constructed and probed, and returned only when
\* the probe succeeded (a discarded adapter is not kept among the instances)
create_ai_providerIn(s) ==
    \E provider_type \in s.provider_types, gw \in s.outcomes :
        LET provider_class == ProviderClassFor(provider_type)
        IN  IF provider_class = None
            THEN /\ last' = Call("create_ai_provider", 0, provider_type, "", gw,
                                 None, "none", <<>>, None, None)
                 /\ UNCHANGED <<adapters, sessions, failedInit, succeeded>>
                 /\ UNCHANGED <<storeVars, pdf, appVars>>
            ELSE \E api_key \in s.api_keys :
                 /\ sessions < s.max_sessions
                 /\ Len(adapters) < s.max_adapters
                 /\ LET r == InitializeCall(NewAdapter(provider_class, api_key), gw,
                                            sessions + 1)
                        i == Len(adapters) + 1
                        out == IF r.exc # "none" THEN "raised" ELSE FactoryReturn(r.ret)
                    IN  /\ sessions' = sessions + 1
                        /\ adapters' = IF out = "provider"
                                       THEN Append(adapters, r.adapter) ELSE adapters
                        /\ succeeded' = IF out = "provider"
                                        THEN succeeded \cup {i} ELSE succeeded
                        /\ UNCHANGED failedInit
                        /\ last' = CallWithKey(
                                       Call("create_ai_provider",
                                            IF out = "provider" THEN i ELSE 0,
                                            provider_type, "", gw, out, r.exc, r.sent,
                                            provider_class, r.ret), api_key)
                        /\ UNCHANGED <<storeVars, pdf, appVars>>

create_ai_provider == create_ai_providerIn(Everything)

Next ==
    \/ Construct
    \/ initialize
    \/ generate_content
    \/ is_available
    \/ create_ai_provider

Spec == Init /\ [][Next]_vars

\* the outcomes a probe or generation has when instances are compared: a
\* transport fault, a rejected credential, a well-formed answer
PoolOutcomes ==
    {GatewayOutcome("fault", 0, "ok", NullBody),
     GatewayOutcome("response", 401, "ok", NullBody),
     GatewayOutcome("response", 200, "ok",
                    JsonBody("object", "array", <<TextChoice("X")>>))}

\* several instances side by side, of two classes and one credential
Pool ==
    Scope(MaxPool, MaxPoolSessions, {"GeminiProvider", "NemotronProvider"},
          {<<"g", "e", "m", "i", "n", "i">>, <<"N", "e", "m", "o", "t", "r", "o", "n">>},
          {<<"k">>}, PoolOutcomes)

NextPool ==
    \/ ConstructIn(Pool)
    \/ initializeIn(Pool)
    \/ generate_contentIn(Pool)
    \/ is_available
    \/ create_ai_providerIn(Pool)

SpecPool == Init /\ [][NextPool]_vars

----------------------------------------------------------------------------
(* The statute store (src/database.py) *)

UpperCase ==
    <<"A", "B", "C", "D", "E", "F", "G", "H", "I", "J", "K", "L", "M",
      "N", "O", "P", "Q", "R", "S", "T", "U", "V", "W", "X", "Y", "Z">>
LowerCase ==
    <<"a", "b", "c", "d", "e", "f", "g", "h", "i", "j", "k", "l", "m",
      "n", "o", "p", "q", "r", "s", "t", "u", "v", "w", "x", "y", "z">>

\* the case folding of SQLite's LIKE: the ASCII letters only
NoCase(c) ==
    IF \E i \in DOMAIN UpperCase : UpperCase[i] = c
    THEN LowerCase[CHOOSE i \in DOMAIN UpperCase : UpperCase[i] = c]
    ELSE c

\* text LIKE pattern: % matches any run of characters, _ any one character,
\* any other character itself, letter case aside
RECURSIVE Like(_, _)
Like(pattern, text) ==
    IF pattern = <<>> THEN text = <<>>
    ELSE IF pattern = <<"%">> THEN TRUE
    ELSE IF Head(pattern) = "%"
         THEN \E k \in 0..Len(text) :
                  Like(Tail(pattern), SubSeq(text, k + 1, Len(text)))
    ELSE /\ text # <<>>
         /\ (Head(pattern) = "_" \/ NoCase(Head(pattern)) = NoCase(Head(text)))
         /\ Like(Tail(pattern), Tail(text))

\* f"%{query}%"
SearchPattern(query) == <<"%">> \o query \o <<"%">>

\* WHERE keywords LIKE ? OR section_number LIKE ? OR title LIKE ?
SearchWhere(row, query) ==
    \/ Like(SearchPattern(query), row.keywords)
    \/ Like(SearchPattern(query), row.section_number)
    \/ Like(SearchPattern(query), row.title)

\* the characters of the section numbers, in the order of their bytes
TextOrder == <<"0", "1", "2", "3", "4", "5", "6", "7", "8", "9", "A">>
ByteRank(c) == CHOOSE i \in DOMAIN TextOrder : TextOrder[i] = c

\* a < b as TEXT values (BINARY collation)
RECURSIVE TextLess(_, _)
TextLess(a, b) ==
    IF b = <<>> THEN FALSE
    ELSE IF a = <<>> THEN TRUE
    ELSE IF Head(a) # Head(b) THEN ByteRank(Head(a)) < ByteRank(Head(b))
    ELSE TextLess(Tail(a), Tail(b))

\* CAST(text AS INTEGER): the value of the leading digits, 0 without any
RECURSIVE CastInteger(_, _)
CastInteger(text, value) ==
    IF text = <<>> \/ ByteRank(Head(text)) > ByteRank("9") THEN value
    ELSE CastInteger(Tail(text), 10 * value + (ByteRank(Head(text)) - 1))

\* r sorts before s under the ORDER BY key: section_number as TEXT, or
\* CAST(section_number AS INTEGER)
Before(key, r, s) ==
    IF key = "section_number" THEN TextLess(r.section_number, s.section_number)
    ELSE CastInteger(r.section_number, 0) < CastInteger(s.section_number, 0)

\* the rows of a set in the order ORDER BY key gives them; rows the key
\* leaves tied come in rowid order
RECURSIVE OrderBy(_, _)
OrderBy(rows, key) ==
    IF rows = {} THEN <<>>
    ELSE LET first == CHOOSE r \in rows :
                          \A s \in rows \ {r} :
                              \/ Before(key, r, s)
                              \/ (~Before(key, s, r) /\ r.id < s.id)
         IN  <<first>> \o OrderBy(rows \ {first}, key)

\* the rows of a table as a set
RowsOf(table) == {table[i] : i \in DOMAIN table}

\* the dictionaries a query returns for its rows: "section" and "title" (the
\* other members repeat columns the model leaves out)
Results(rows) == [i \in DOMAIN rows |-> [section |-> rows[i].section_number,
                                        title |-> rows[i].title]]

\* search_ipc_sections(query)
SearchRows(table, query) ==
    Results(OrderBy({r \in RowsOf(table) : SearchWhere(r, query)}, "section_number"))

\* get_all_ipc_sections()
AllRows(table) == Results(OrderBy(RowsOf(table), "cast"))

\* the sample sections of populate_sample_data, in the order they are inserted:
\* section_number, title and keywords as tuples of characters (the columns the
\* search reads), category as it stands; the three long text columns are
\* carried through unread and left out
SectionRow(section_number, title, category, keywords) ==
    [section_number |-> section_number, title |-> title, category |-> category,
     keywords |-> keywords]

ipc_sections ==
    <<SectionRow(<<"3", "0", "2">>,
                 <<"M", "u", "r", "d", "e", "r">>,
                 "Offences against Human Body",
                 <<"m", "u", "r", "d", "e", "r", ",", " ", "k", "i", "l", "l", "i", "n",
                 "g", ",", " ", "d", "e", "a", "t", "h", ",", " ", "h", "o", "m", "i", "c",
                 "i", "d", "e">>),
      SectionRow(<<"3", "7", "6">>,
                 <<"R", "a", "p", "e">>,
                 "Offences against Women",
                 <<"r", "a", "p", "e", ",", " ", "s", "e", "x", "u", "a", "l", " ", "a",
                 "s", "s", "a", "u", "l", "t", ",", " ", "w", "o", "m", "e", "n", ",", " ",
                 "c", "r", "i", "m", "e">>),
      SectionRow(<<"4", "2", "0">>,
                 <<"C", "h", "e", "a", "t", "i", "n", "g">>,
                 "Offences against Property",
                 <<"c", "h", "e", "a", "t", "i", "n", "g", ",", " ", "f", "r", "a", "u",
                 "d", ",", " ", "d", "i", "s", "h", "o", "n", "e", "s", "t", "y", ",", " ",
                 "p", "r", "o", "p", "e", "r", "t", "y">>),
      SectionRow(<<"4", "9", "8", "A">>,
                 <<"C", "r", "u", "e", "l", "t", "y", " ", "b", "y", " ", "h", "u", "s",
                 "b", "a", "n", "d", " ", "o", "r", " ", "r", "e", "l", "a", "t", "i", "v",
                 "e", "s">>,
                 "Offences against Women",
                 <<"d", "o", "w", "r", "y", ",", " ", "h", "a", "r", "a", "s", "s", "m",
                 "e", "n", "t", ",", " ", "c", "r", "u", "e", "l", "t", "y", ",", " ", "d",
                 "o", "m", "e", "s", "t", "i", "c", " ", "v", "i", "o", "l", "e", "n", "c",
                 "e">>),
      SectionRow(<<"3", "5", "4">>,
                 <<"A", "s", "s", "a", "u", "l", "t", " ", "o", "n", " ", "w", "o", "m",
                 "e", "n">>,
                 "Offences against Women",
                 <<"a", "s", "s", "a", "u", "l", "t", ",", " ", "w", "o", "m", "e", "n",
                 ",", " ", "m", "o", "d", "e", "s", "t", "y", ",", " ", "h", "a", "r", "a",
                 "s", "s", "m", "e", "n", "t">>),
      SectionRow(<<"3", "7", "9">>,
                 <<"T", "h", "e", "f", "t">>,
                 "Offences against Property",
                 <<"t", "h", "e", "f", "t", ",", " ", "s", "t", "e", "a", "l", "i", "n",
                 "g", ",", " ", "p", "r", "o", "p", "e", "r", "t", "y", ",", " ", "d", "i",
                 "s", "h", "o", "n", "e", "s", "t", "y">>),
      SectionRow(<<"3", "2", "3">>,
                 <<"V", "o", "l", "u", "n", "t", "a", "r", "i", "l", "y", " ", "c", "a",
                 "u", "s", "i", "n", "g", " ", "h", "u", "r", "t">>,
                 "Offences against Human Body",
                 <<"h", "u", "r", "t", ",", " ", "i", "n", "j", "u", "r", "y", ",", " ",
                 "a", "s", "s", "a", "u", "l", "t", ",", " ", "v", "i", "o", "l", "e", "n",
                 "c", "e">>),
      SectionRow(<<"5", "0", "6">>,
                 <<"C", "r", "i", "m", "i", "n", "a", "l", " ", "i", "n", "t", "i", "m",
                 "i", "d", "a", "t", "i", "o", "n">>,
                 "Offences against Public Tranquility",
                 <<"i", "n", "t", "i", "m", "i", "d", "a", "t", "i", "o", "n", ",", " ",
                 "t", "h", "r", "e", "a", "t", ",", " ", "f", "e", "a", "r", ",", " ", "c",
                 "r", "i", "m", "i", "n", "a", "l">>),
      SectionRow(<<"2", "9", "4">>,
                 <<"O", "b", "s", "c", "e", "n", "e", " ", "a", "c", "t", "s">>,
                 "Offences against Public Tranquility",
                 <<"o", "b", "s", "c", "e", "n", "i", "t", "y", ",", " ", "p", "u", "b",
                 "l", "i", "c", " ", "n", "u", "i", "s", "a", "n", "c", "e", ",", " ", "i",
                 "n", "d", "e", "c", "e", "n", "c", "y">>),
      SectionRow(<<"4", "0", "6">>,
                 <<"C", "r", "i", "m", "i", "n", "a", "l", " ", "b", "r", "e", "a", "c",
                 "h", " ", "o", "f", " ", "t", "r", "u", "s", "t">>,
                 "Offences against Property",
                 <<"b", "r", "e", "a", "c", "h", " ", "o", "f", " ", "t", "r", "u", "s",
                 "t", ",", " ", "e", "m", "b", "e", "z", "z", "l", "e", "m", "e", "n", "t",
                 ",", " ", "m", "i", "s", "a", "p", "p", "r", "o", "p", "r", "i", "a", "t",
                 "i", "o", "n">>)>>

\* the names of the three sample templates
templates == <<"Rental Agreement", "Employment Contract", "Legal Notice">>

\* the rows an INSERT of values adds to a table: AUTOINCREMENT numbers them on
InsertRows(table, values) ==
    table \o [i \in DOMAIN values |->
                 [id |-> Len(table) + i] @@ values[i]]

UniqueViolated_Never(table, values) == FALSE

\* section_number TEXT UNIQUE: the insert is refused (IntegrityError) when a
\* value repeats a stored section number
UniqueViolated(table, values) ==
    \E i \in DOMAIN table, j \in DOMAIN values :
        table[i].section_number = values[j].section_number

\* SELECT COUNT(*) FROM ipc_sections ... > 0
AlreadyPopulated(tables) == Len(tables.ipc_sections) > 0

\* the two executemany calls and the commit of populate_sample_data: one
\* transaction, which leaves the tables as they were when an INSERT is refused
PopulateTransaction(tables) ==
    IF UniqueViolated(tables.ipc_sections, ipc_sections)
    THEN [tables |-> tables, exc |-> "IntegrityError"]
    ELSE [tables |-> [tables EXCEPT
                         !.ipc_sections = InsertRows(@, ipc_sections),
                         !.legal_templates =
                             InsertRows(@, [i \in DOMAIN templates |->
                                               [template_name |-> templates[i]]])],
          exc |-> "none"]

SaveQuery_Always(tables, query, response, outcome) ==
    [tables EXCEPT !.query_history =
        InsertRows(@, <<[query |-> query, response |-> response]>>)]

\* save_query(query, response): one row more in query_history, or none when
\* the INSERT fails (sqlite3.Error is caught and printed)
SaveQuery(tables, query, response, outcome) ==
    IF outcome = "ok"
    THEN [tables EXCEPT !.query_history =
             InsertRows(@, <<[query |-> query, response |-> response]>>)]
    ELSE tables

\* what the users type into the search box
Queries ==
    {<<>>, <<"t", "h", "e", "f", "t">>, <<"T", "H", "E", "F", "T">>,
     <<"w", "o", "m", "e", "n">>, <<"4">>, <<"4", "9", "8", "A">>,
     <<"x", "y", "z">>, <<"_">>, <<"3", "%", "2">>,
     <<"t", "r", "u", "s", "t", ",", " ", "e">>}

\* NyayAIDatabase(): init_database creates the tables (IF NOT EXISTS)
init_database ==
    \E c \in Constructors :
        /\ conns.pc[c] \in {"idle", "ready", "raised"}
        /\ conns.attempts < MaxConstructions
        /\ conns' = [conns EXCEPT !.pc[c] = "tables", !.attempts = @ + 1]
        /\ UNCHANGED <<db, found>>
        /\ UNCHANGED <<adapterVars, pdf, appVars>>

\* populate_sample_data, first half: the COUNT(*) check
populate_check ==
    \E c \in Constructors :
        /\ conns.pc[c] = "tables"
        /\ conns' = IF AlreadyPopulated(db)
                    THEN [conns EXCEPT !.pc[c] = "ready", !.instances = @ + 1]
                    ELSE [conns EXCEPT !.pc[c] = "inserting"]
        /\ UNCHANGED <<db, found>>
        /\ UNCHANGED <<adapterVars, pdf, appVars>>

\* populate_sample_data, second half: the inserts and the commit; a refused
\* INSERT raises out of the constructor
populate_insert ==
    \E c \in Constructors :
        /\ conns.pc[c] = "inserting"
        /\ LET r == PopulateTransaction(db)
           IN  /\ db' = r.tables
               /\ conns' = IF r.exc = "none"
                           THEN [conns EXCEPT !.pc[c] = "ready", !.instances = @ + 1]
                           ELSE [conns EXCEPT !.pc[c] = "raised"]
        /\ UNCHANGED found
        /\ UNCHANGED <<adapterVars, pdf, appVars>>

\* db.search_ipc_sections(query) on a constructed instance
search_ipc_sections ==
    \E query \in Queries :
        /\ conns.instances > 0
        /\ found' = [op |-> "search_ipc_sections", query |-> query,
                     rows |-> SearchRows(db.ipc_sections, query)]
        /\ UNCHANGED <<db, conns>>
        /\ UNCHANGED <<adapterVars, pdf, appVars>>

\* db.get_all_ipc_sections() on a constructed instance
get_all_ipc_sections ==
    /\ conns.instances > 0
    /\ found' = [op |-> "get_all_ipc_sections", query |-> <<>>,
                 rows |-> AllRows(db.ipc_sections)]
    /\ UNCHANGED <<db, conns>>
    /\ UNCHANGED <<adapterVars, pdf, appVars>>

NextStore ==
    \/ init_database
    \/ populate_check
    \/ populate_insert
    \/ search_ipc_sections
    \/ get_all_ipc_sections

SpecStore == Init /\ [][NextStore]_vars

----------------------------------------------------------------------------
(* PDF text extraction (src/pdf_processor.py) *)

PREVIEW_CHARS == 1000    \* text[:1000]
PREVIEW_LIMIT == 5000    \* len(extracted_text) > 5000

\* the text page.get_text() returns, by its length and whether it is blank
PageText(chars, blank) == [chars |-> chars, blank |-> blank]

\* a document handed to the extraction: the texts of its pages, or a file
\* fitz.open raises on
Document(pages) == [readable |-> TRUE, pages |-> pages]
Unreadable == [readable |-> FALSE, pages |-> <<>>]

Documents ==
    {Unreadable, Document(<<>>), Document(<<PageText(0, TRUE)>>),
     Document(<<PageText(400, FALSE)>>),
     Document(<<PageText(1000, FALSE), PageText(1001, FALSE), PageText(3, TRUE)>>),
     Document(<<PageText(3000, FALSE), PageText(3000, FALSE), PageText(3000, FALSE),
                PageText(3000, FALSE), PageText(3000, FALSE), PageText(3000, FALSE)>>),
     Document(<<PageText(6000, FALSE), PageText(400, FALSE)>>)}

\* a max_pages argument: None, or a number of pages
NoMaxPages == [none |-> TRUE, pages |-> 0]
MaxPages(n) == [none |-> FALSE, pages |-> n]
MaxPagesArgs == {NoMaxPages} \cup {MaxPages(n) : n \in {0, 1, 2, 4, 9}}

\* the truth value of max_pages: None and 0 are false
Truthy(max_pages) == ~max_pages.none /\ max_pages.pages # 0

\* min(max_pages or total_pages, total_pages)
PagesToProcess(max_pages, total_pages) ==
    LET limit == IF Truthy(max_pages) THEN max_pages.pages ELSE total_pages
    IN  IF limit < total_pages THEN limit ELSE total_pages

\* the number of decimal digits of a page number (documents have under 100 pages)
Digits(n) == IF n < 10 THEN 1 ELSE 2

\* the characters of a page that reach the result: text[:1000] in preview mode
PageChars(text, preview_mode) ==
    IF preview_mode /\ text.chars > PREVIEW_CHARS THEN PREVIEW_CHARS ELSE text.chars

\* len(f"\n--- Page {page_num + 1} of {total_pages} ---\n{text}\n"), "..."
\* included when the page was cut
PieceLength(text, page, total_pages, preview_mode) ==
    20 + Digits(page) + Digits(total_pages) + PageChars(text, preview_mode)
       + (IF preview_mode /\ text.chars > PREVIEW_CHARS THEN 3 ELSE 0)

\* the loop over the pages of document from page on: pieces lists for each page processed
\* its number and the characters of it that were taken, chars is the length
\* of extracted_text (the notice of a truncated preview not counted)
RECURSIVE ExtractPages(_, _, _, _, _)
ExtractPages(document, page, pages_to_process, preview_mode, acc) ==
    IF page > pages_to_process THEN acc
    ELSE LET piece == [page |-> page,
                       chars |-> PageChars(document[page], preview_mode)]
             chars == acc.chars
                        + PieceLength(document[page], page, Len(document), preview_mode)
             next == [pieces |-> Append(acc.pieces, piece), chars |-> chars,
                      blank |-> FALSE, truncated |-> FALSE]
         IN  IF preview_mode /\ chars > PREVIEW_LIMIT
             THEN [next EXCEPT !.truncated = TRUE]
             ELSE ExtractPages(document, page + 1, pages_to_process, preview_mode, next)

\* a returned text: extracted_text or one of the three messages, by its
\* length (the messages' lengths are not modelled) and whether it is blank
Text(kind, chars, blank) == [kind |-> kind, chars |-> chars, blank |-> blank]

\* extract_text_from_pdf(pdf_file, max_pages, preview_mode) of a processor
\* whose PyMuPDF import succeeded (available) or did not
ExtractCall(available, document, max_pages, preview_mode) ==
    LET call == [op |-> "extract_text_from_pdf", available |-> available,
                 document |-> document, max_pages |-> max_pages,
                 preview_mode |-> preview_mode, raised |-> FALSE,
                 total_pages |-> Len(document.pages)]
        failed(kind) == call @@ [text |-> Text(kind, 0, FALSE), success |-> FALSE,
                                 pages |-> <<>>]
    IN  IF ~available THEN failed("not available")
        ELSE IF ~document.readable THEN failed("error")
        ELSE LET r == ExtractPages(document.pages, 1,
                                   PagesToProcess(max_pages, Len(document.pages)),
                                   preview_mode,
                                   [pieces |-> <<>>, chars |-> 0, blank |-> TRUE,
                                    truncated |-> FALSE])
             IN  IF r.blank
                 THEN [failed("no text") EXCEPT !.pages = r.pieces]
                 ELSE call @@ [text |-> Text("extracted", r.chars, r.blank),
                               success |-> TRUE, pages |-> r.pieces]

\* pdf.extract_text_from_pdf(uploaded_file, max_pages, preview_mode)
extract_text_from_pdf ==
    \E available \in BOOLEAN, document \in Documents, max_pages \in MaxPagesArgs,
       preview_mode \in BOOLEAN :
        /\ pdf' = ExtractCall(available, document, max_pages, preview_mode)
        /\ UNCHANGED <<adapterVars, storeVars, appVars>>

NextPdf == extract_text_from_pdf

SpecPdf == Init /\ [][NextPdf]_vars

----------------------------------------------------------------------------
(* The application script (src/app.py) *)

\* create_ai_provider(provider_type, api_key) as a caller sees it: None, the
\* ready adapter ("provider"), or the exception that escaped ("raised")
FactoryCall(provider_type, api_key, gw) ==
    LET provider_class == ProviderClassFor(provider_type)
    IN  IF provider_class = None THEN None
        ELSE LET r == InitializeCall(NewAdapter(provider_class, api_key), gw, 1)
             IN  IF r.exc # "none" THEN "raised" ELSE FactoryReturn(r.ret)

\* AIHandler(): a handler that owns no adapter; id tells the objects apart
AIHandler(id) == [id |-> id, provider |-> Absent]

\* handler.is_online(): it owns an adapter (one the factory returned, hence
\* ready, and a ready adapter stays ready)
is_online(handler) == IsPresent(handler.provider)

\* handler.update_configuration(provider_type, api_key): the handler takes what
\* the factory returns (provider) and answers whether that is an adapter; an
\* exception of the factory passes through and leaves the handler as it was
Configured(handler, provider_type, provider) ==
    IF provider = "raised" THEN [handler |-> handler, ret |-> "raised"]
    ELSE IF provider = None
    THEN [handler |-> [handler EXCEPT !.provider = Absent], ret |-> False]
    ELSE [handler |-> [handler EXCEPT !.provider =
                                          Present(ProviderClassFor(provider_type))],
          ret |-> True]

update_configuration(handler, provider_type, api_key, gw) ==
    Configured(handler, provider_type, FactoryCall(provider_type, api_key, gw))

\* handler.generate_legal_response(query, context): the text of the adapter,
\* or the fallback when the adapter gave none
generate_legal_response(answer) == IF answer = "text" THEN "text" ELSE "fallback"

\* handler.add_disclaimer(text) on the offline-mode text of render_qa_page
add_disclaimer == "offline"

\* the state a run works on: session_state, query_params, the tables of the
\* database file, and the record of the run
Frame(ss, qp, tables, r) == [ss |-> ss, qp |-> qp, tables |-> tables, run |-> r]

Ended(f) == f.run.ended # "none"
End(f, how, line) == [f EXCEPT !.run.ended = how, !.run.at = line]

\* what happens in a run besides the state it finds: the control used and the
\* values of the widgets (e.page the page chosen in the sidebar, e.widget
\* whether the page selectbox keeps its stored value or takes its index),
\* and what the environment does (NyayAIDatabase() raising or not, the
\* gateway's answer to a probe, the handler's kind of answer, the INSERT of
\* save_query failing or not)
Event(trigger, page, widget, provider_type, api_key, gw, user_query, answer, save, components) ==
    [trigger |-> trigger, page |-> page, widget |-> widget,
     provider_type |-> provider_type, api_key |-> api_key, gw |-> gw,
     user_query |-> user_query, answer |-> answer, save |-> save,
     components |-> components]

\* NyayAIDatabase() of a single thread: the tables exist and hold the sample rows
Constructed(tables) ==
    IF AlreadyPopulated(tables) THEN tables ELSE PopulateTransaction(tables).tables

init_components_Always(f, e) ==
    IF e.components = "raised" THEN End(f, "returned", 78)
    ELSE [f EXCEPT !.tables = Constructed(@),
                   !.ss.ai_handler = Present(AIHandler(f.run.handlers + 1)),
                   !.run.created = TRUE,
                   !.run.handlers = @ + 1]

\* init_components() and the check of its result: a construction that raises
\* ends the run at the return of line 78; otherwise the session's handler is
\* created if there is none
init_components(f, e) ==
    IF e.components = "raised" THEN End(f, "returned", 78)
    ELSE IF IsPresent(f.ss.ai_handler) THEN [f EXCEPT !.tables = Constructed(@)]
    ELSE [f EXCEPT !.tables = Constructed(@),
                   !.ss.ai_handler = Present(AIHandler(f.run.handlers + 1)),
                   !.run.created = TRUE,
                   !.run.handlers = @ + 1]

\* the percent escapes the inputs use
Escapes == {<<"2", "0">>, <<"2", "6">>, <<"2", "B">>}
Unescaped(hex) ==
    CASE hex = <<"2", "0">> -> " " [] hex = <<"2", "6">> -> "&" [] hex = <<"2", "B">> -> "+"

\* urllib.parse.unquote_plus: "+" is a space, %XX the character it encodes
RECURSIVE UnquotePlus(_)
UnquotePlus(s) ==
    IF s = <<>> THEN <<>>
    ELSE IF Head(s) = "+" THEN <<" ">> \o UnquotePlus(Tail(s))
    ELSE IF Head(s) = "%" /\ Len(s) >= 3 /\ SubSeq(s, 2, 3) \in Escapes
         THEN <<Unescaped(SubSeq(s, 2, 3))>> \o UnquotePlus(SubSeq(s, 4, Len(s)))
    ELSE <<Head(s)>> \o UnquotePlus(Tail(s))

\* x in page_options
IsPageOption(x) == \E i \in DOMAIN page_options : page_options[i] = x

NavigationTarget_Decoded(raw_page) == UnquotePlus(raw_page)

\* target of lines 94-96: the decoded value if it is a page option, else the
\* decoded value stripped
NavigationTarget(raw_page) ==
    LET decoded == UnquotePlus(raw_page)
    IN  IF IsPageOption(decoded) THEN decoded ELSE Strip(decoded)

\* lines 84-104: with a 'page' parameter, current_page becomes the target if
\* that is a page option, the parameters are cleared and the script reruns
\* (RerunException is no Exception, the except of line 102 lets it pass)
query_param_navigation(f) ==
    IF ~IsPresent(f.qp) THEN f
    ELSE LET raw_page == ValueOf(f.qp)
             target == NavigationTarget(raw_page)
             g == IF raw_page # <<>> /\ IsPageOption(target)
                  THEN [f EXCEPT !.ss.current_page = target] ELSE f
         IN  End([g EXCEPT !.qp = Absent], "rerun", 101)

\* page_options.index(current_page) if current_page in page_options else 0
\* (Python counts from 0, the tuples here from 1)
CurrentIndex(current_page) ==
    IF IsPageOption(current_page)
    THEN CHOOSE i \in DOMAIN page_options : page_options[i] = current_page
    ELSE 1

\* what st.sidebar.selectbox(..., index=current_index, key="page_selector")
\* returns: the page the user has just chosen; else the value stored under
\* the key, or the option at index (Streamlit versions differ in whether a
\* changed index resets a keyed widget; without a stored value it is the
\* option at index)
Selectbox(ss, e) ==
    IF e.trigger = "select" THEN e.page
    ELSE IF e.widget = "kept" /\ IsPresent(ss.page_selector) THEN ValueOf(ss.page_selector)
    ELSE page_options[CurrentIndex(ss.current_page)]

sidebar_navigation_NoUpdate(f, e) ==
    [f EXCEPT !.ss.page_selector = Present(Selectbox(f.ss, e)),
              !.run.controls = @ \cup {"page_selector"}]

\* lines 116-127: the selectbox and the update of current_page
sidebar_navigation(f, e) ==
    LET page == Selectbox(f.ss, e)
    IN  [f EXCEPT !.ss.page_selector = Present(page),
                  !.ss.current_page = IF page # @ THEN page ELSE @,
                  !.run.controls = @ \cup {"page_selector"}]

\* lines 164-175, r being what update_configuration did: an exception reaches
\* the except of main(), True ends the run with st.rerun(), False goes on
AfterConfiguration(f, r) ==
    IF r.ret = "raised"
    THEN End([f EXCEPT !.run.update_configuration = r.ret], "error", 198)
    ELSE IF r.ret = True
    THEN End([f EXCEPT !.ss.ai_handler = Present(r.handler),
                       !.run.update_configuration = r.ret], "rerun", 167)
    ELSE [f EXCEPT !.ss.ai_handler = Present(r.handler),
                   !.run.update_configuration = r.ret]

\* lines 157-175: the Configure API Key button
configure_button(f, e) ==
    LET g == [f EXCEPT !.run.controls = @ \cup {"configure"}]
    IN  IF e.trigger # "configure" THEN g
        ELSE IF e.api_key = <<>> \/ Strip(e.api_key) = <<>> THEN End(g, "returned", 160)
        ELSE IF ~IsPresent(g.ss.ai_handler)
        THEN End([g EXCEPT !.run.update_configuration = "AttributeError"], "error", 198)
        ELSE AfterConfiguration(g, update_configuration(ValueOf(g.ss.ai_handler),
                                                       Lower(e.provider_type),
                                                       e.api_key, e.gw))

\* lines 177-183: the Reset API Key button, rendered for a configured session
\* whose handler is online
reset_button(f, e) ==
    IF f.ss.api_key_configured /\ IsPresent(f.ss.ai_handler)
       /\ is_online(ValueOf(f.ss.ai_handler))
    THEN LET g == [f EXCEPT !.run.controls = @ \cup {"reset"}]
         IN  IF e.trigger = "reset"
             THEN End([g EXCEPT !.ss.api_key_configured = FALSE,
                                !.ss.ai_handler = Absent], "rerun", 183)
             ELSE g
    ELSE f

\* relevant_sections[:3]
FirstThree(rows) == SubSeq(rows, 1, IF Len(rows) < 3 THEN Len(rows) ELSE 3)

\* render_qa_page(db, ai), lines 376-435: the chat history is created if
\* absent; a submitted non-empty question is searched for, answered by the
\* handler (online) or by the offline text, appended to the chat history and
\* saved, and the script reruns; else Clear Chat History empties the history
render_qa_page(f, e) ==
    LET chat == IF IsPresent(f.ss.chat_history) THEN ValueOf(f.ss.chat_history) ELSE <<>>
        g == [f EXCEPT !.ss.chat_history = Present(chat),
                       !.run.controls = @ \cup {"qa_form"}]
    IN  IF e.trigger = "ask" /\ e.user_query # <<>>
        THEN LET relevant_sections == SearchRows(g.tables.ipc_sections, e.user_query)
                 ai == ValueOf(g.ss.ai_handler)
                 response == IF is_online(ai) THEN generate_legal_response(e.answer)
                             ELSE add_disclaimer
                 chat_entry == [query |-> e.user_query, response |-> response]
                 tables == SaveQuery(g.tables, e.user_query, response, e.save)
             IN  End([g EXCEPT !.ss.chat_history = Present(Append(chat, chat_entry)),
                               !.tables = tables,
                               !.run.context = FirstThree(relevant_sections),
                               !.run.response = response,
                               !.run.appended = 1,
                               !.run.saved = Len(tables.query_history)
                                                 - Len(g.tables.query_history)],
                     "rerun", 428)
        ELSE LET h == [g EXCEPT !.run.controls = @ \cup {"clear_chat"}]
             IN  IF e.trigger = "clear_chat"
                 THEN End([h EXCEPT !.ss.chat_history = Present(<<>>)], "rerun", 435)
                 ELSE h

\* lines 186-197: the if/elif chain; the renderer of the first name that
\* equals current_page runs, none if no name does
dispatch(f, e) ==
    LET current_page == f.ss.current_page
        g == [f EXCEPT !.run.dispatched = Present(current_page)]
        called(page) == [g EXCEPT !.run.renderers = Append(@, page)]
    IN  IF current_page = Home THEN called(Home)
        ELSE IF current_page = LegalQA THEN render_qa_page(called(LegalQA), e)
        ELSE IF current_page = DocumentAnalysis THEN called(DocumentAnalysis)
        ELSE IF current_page = IPCFlashcards THEN called(IPCFlashcards)
        ELSE IF current_page = IPCSections THEN called(IPCSections)
        ELSE IF current_page = LegalTemplates THEN called(LegalTemplates)
        ELSE g

\* a part of main() runs unless the run has ended before it
query_param_navigation_step(f) == IF Ended(f) THEN f ELSE query_param_navigation(f)
sidebar_navigation_step(f, e) == IF Ended(f) THEN f ELSE sidebar_navigation(f, e)
configure_button_step(f, e) == IF Ended(f) THEN f ELSE configure_button(f, e)
reset_button_step(f, e) == IF Ended(f) THEN f ELSE reset_button(f, e)
dispatch_step(f, e) == IF Ended(f) THEN f ELSE dispatch(f, e)
end_of_main(f) == IF Ended(f) THEN f ELSE End(f, "rendered", 197)

\* main(): one run of the script
main(f, e) ==
    end_of_main(
      dispatch_step(
        reset_button_step(
          configure_button_step(
            sidebar_navigation_step(
              query_param_navigation_step(init_components(f, e)), e), e), e), e))

\* the state a run leaves
Left(f) ==
    /\ session_state' = f.ss
    /\ query_params' = f.qp
    /\ db' = f.tables
    /\ run' = f.run

\* one run of the script in a browser session whose state is ss, with the
\* 'page' parameter qp, as one step
ScriptRun(ss, qp, e) ==
    /\ Left(main(Frame(ss, qp, db,
                       [Run(e.trigger, run.handlers, ss.current_page, qp, run.at)
                            EXCEPT !.user_query = e.user_query, !.save = e.save]),
                 e))
    /\ UNCHANGED <<adapterVars, conns, found, pdf>>

\* the page of the last run is on screen and shows the control
OnScreen(control) ==
    /\ run.ended \in {"rendered", "returned", "error"}
    /\ control \in run.controls

\* widget values and outcomes of a run that uses no control
Plain(trigger, widget, components) ==
    Event(trigger, <<>>, widget, <<>>, <<>>, NoOutcome, <<>>, "none", "none", components)

\* the inputs a specification of the application draws from: the 'page'
\* parameters of the links followed, the pages chosen in the sidebar (by their
\* places in page_options), the names passed to navigate_to_page, the
\* labels of the provider selectbox and the names passed to update_ai_handler,
\* the keys typed, the gateway's answers to the probe, the questions asked,
\* the handler's kinds of answer, the outcomes of save_query and of
\* NyayAIDatabase()
Inputs(params, pages, page_names, labels, provider_types, api_keys, outcomes, questions, answers, saves, components) ==
    [params |-> params, pages |-> pages, page_names |-> page_names, labels |-> labels,
     provider_types |-> provider_types, api_keys |-> api_keys, outcomes |-> outcomes,
     questions |-> questions, answers |-> answers, saves |-> saves,
     components |-> components]

\* a browser opens the application, with or without ?page=...: a new session
\* (the defaults of lines 26-33) and its first run
open_pageIn(s) ==
    \E param \in s.params, components \in s.components :
        /\ run.handlers < MaxHandlers
        /\ ScriptRun(FreshSession, param, Plain("load", "index", components))

\* the run that st.rerun() asked for
rerunIn(s) ==
    \E widget \in {"kept", "index"}, components \in s.components :
        /\ run.ended = "rerun"
        /\ ScriptRun(session_state, query_params, Plain("rerun", widget, components))

\* the user chooses a page in the sidebar
select_pageIn(s) ==
    \E i \in s.pages, components \in s.components :
        /\ OnScreen("page_selector")
        /\ ScriptRun(session_state, query_params,
                     [Plain("select", "kept", components) EXCEPT !.page = page_options[i]])

\* the user presses Configure API Key
configureIn(s) ==
    \E provider_type \in s.labels, api_key \in s.api_keys, widget \in {"kept"},
       components \in s.components :
      \E gw \in IF Strip(api_key) = <<>> THEN {NoOutcome} ELSE s.outcomes :
        /\ OnScreen("configure")
        /\ ScriptRun(session_state, query_params,
                     [Plain("configure", widget, components) EXCEPT
                          !.provider_type = provider_type, !.api_key = api_key,
                          !.gw = gw])

\* the user presses Reset API Key
resetIn(s) ==
    \E components \in s.components :
        /\ OnScreen("reset")
        /\ run.handlers < MaxHandlers
        /\ ScriptRun(session_state, query_params, Plain("reset", "kept", components))

\* the user submits the form of the Legal Q&A page
askIn(s) ==
    \E user_query \in s.questions, answer \in s.answers, save \in s.saves,
       components \in s.components :
        /\ OnScreen("qa_form")
        /\ Len(ValueOf(session_state.chat_history)) < MaxQuestions
        /\ Len(db.query_history) < MaxQuestions
        /\ ScriptRun(session_state, query_params,
                     [Plain("ask", "kept", components) EXCEPT
                          !.user_query = user_query, !.answer = answer, !.save = save])

\* the user presses Clear Chat History
clear_chatIn(s) ==
    \E components \in s.components :
        /\ OnScreen("clear_chat")
        /\ ScriptRun(session_state, query_params, Plain("clear_chat", "kept", components))

\* navigate_to_page(page_name), called while a session is being served
navigate_to_pageIn(s) ==
    \E page_name \in s.page_names :
        /\ run.ended \in {"rendered", "returned", "error"}
        /\ Left(End(Frame([session_state EXCEPT !.current_page = page_name],
                          query_params, db,
                          Run("navigate_to_page", run.handlers,
                              session_state.current_page, query_params, run.at)),
                    "rerun", 65))
        /\ UNCHANGED <<adapterVars, conns, found, pdf>>

\* lines 54-55: the handler is created if there is none
HandlerEnsured(f) ==
    IF IsPresent(f.ss.ai_handler) THEN f
    ELSE [f EXCEPT !.ss.ai_handler = Present(AIHandler(f.run.handlers + 1)),
                   !.run.created = TRUE,
                   !.run.handlers = @ + 1]

\* lines 57-59, r being what update_configuration did: the flag takes its
\* result (an exception leaves the flag)
FlagSet(f, r) ==
    IF r.ret = "raised" THEN [f EXCEPT !.run.update_configuration = r.ret]
    ELSE [f EXCEPT !.ss.ai_handler = Present(r.handler),
                   !.ss.api_key_configured = (r.ret = True),
                   !.run.update_configuration = r.ret]

\* update_ai_handler(provider_type, api_key) on the frame f
UpdateAIHandler(f, provider_type, api_key, gw) ==
    IF provider_type # <<>> /\ api_key # <<>> /\ Strip(api_key) # <<>>
    THEN End(FlagSet(HandlerEnsured(f),
                     update_configuration(ValueOf(HandlerEnsured(f).ss.ai_handler),
                                          provider_type, api_key, gw)),
             "rerun", 59)
    ELSE End([f EXCEPT !.run.update_configuration = False], "rerun", 60)

\* update_ai_handler(provider_type, api_key), called while a session is being
\* served; the script runs again afterwards
update_ai_handlerIn(s) ==
    \E provider_type \in s.provider_types, api_key \in s.api_keys :
      \E gw \in IF provider_type = <<>> \/ Strip(api_key) = <<>>
                THEN {NoOutcome} ELSE s.outcomes :
        /\ run.ended \in {"rendered", "returned", "error"}
        /\ IsPresent(session_state.ai_handler) \/ run.handlers < MaxHandlers
        /\ Left(UpdateAIHandler(Frame(session_state, query_params, db,
                                      Run("update_ai_handler", run.handlers,
                                          session_state.current_page, query_params, run.at)),
                                provider_type, api_key, gw))
        /\ UNCHANGED <<adapterVars, conns, found, pdf>>

\* the 'page' values of the links followed: a page name as it stands, one
\* with "+" and %26 for its spaces and its "&", one with %20, one padded
\* with whitespace, one that names no page, one that does so only up to
\* letter case, and the empty value
RawPages ==
    {IPCSections,
     <<"[speech]", "+", "L", "e", "g", "a", "l", "+", "Q", "%", "2", "6", "A">>,
     <<"[page]", "%", "2", "0", "D", "o", "c", "u", "m", "e", "n", "t", "%", "2", "0",
       "A", "n", "a", "l", "y", "s", "i", "s">>,
     <<" ">> \o LegalTemplates \o <<"\n">>,
     <<"S", "e", "t", "t", "i", "n", "g", "s">>,
     <<"[house]", " ", "h", "o", "m", "e">>,
     <<>>}

\* navigation, configuration and reset, with no question asked
Application ==
    Inputs({Absent} \cup {Present(raw) : raw \in RawPages},
           DOMAIN page_options,
           {IPCFlashcards, <<"S", "e", "t", "t", "i", "n", "g", "s">>},
           DOMAIN provider_models,
           {<<"g", "e", "m", "i", "n", "i">>, <<"c", "l", "a", "u", "d", "e">>, <<>>},
           {<<>>, <<" ">>, <<"k">>},
           PoolOutcomes,
           {},
           {},
           {},
           {"ok", "raised"})

NextApp ==
    \/ open_pageIn(Application)
    \/ rerunIn(Application)
    \/ select_pageIn(Application)
    \/ configureIn(Application)
    \/ resetIn(Application)
    \/ navigate_to_pageIn(Application)
    \/ update_ai_handlerIn(Application)

SpecApp == Init /\ [][NextApp]_vars

\* the Legal Q&A page: sessions opened without a parameter, the Legal Q&A
\* page to choose, one provider to configure with a key the gateway accepts,
\* and the questions: none, and one that five sample sections match
Chat ==
    Inputs({Absent},
           {2},
           {},
           {<<"G", "e", "m", "i", "n", "i">>},
           {},
           {<<"k">>},
           {GatewayOutcome("response", 200, "ok",
                           JsonBody("object", "array", <<TextChoice("X")>>))},
           {<<>>, <<"4">>},
           {"text", "fallback"},
           {"ok", "error"},
           {"ok"})

NextQA ==
    \/ open_pageIn(Chat)
    \/ rerunIn(Chat)
    \/ select_pageIn(Chat)
    \/ configureIn(Chat)
    \/ askIn(Chat)
    \/ clear_chatIn(Chat)

SpecQA == Init /\ [][NextQA]_vars

----------------------------------------------------------------------------
(* Properties *)

\* the four backend tags, as the documentation lists them
SupportedTags ==
    {<<"g", "e", "m", "i", "n", "i">>, <<"o", "p", "e", "n", "a", "i">>,
     <<"d", "e", "e", "p", "s", "e", "e", "k">>,
     <<"n", "e", "m", "o", "t", "r", "o", "n">>}

\* the adapter variant each backend name of ProviderTypes stands for
ExpectedVariant(provider_type) ==
    CASE provider_type \in {<<"g", "e", "m", "i", "n", "i">>,
                            <<"G", "e", "m", "i", "n", "i">>} -> "GeminiProvider"
      [] provider_type = <<"O", "p", "e", "n", "A", "I">> -> "OpenAIProvider"
      [] provider_type = <<"D", "E", "E", "P", "S", "E", "E", "K">> -> "DeepSeekProvider"
      [] provider_type = <<"N", "e", "m", "o", "t", "r", "o", "n">> -> "NemotronProvider"
      [] OTHER -> None

\* the gateway answered with a non-error status and a body that parsed
AnsweredOk(gw) ==
    gw.net = "response" /\ (gw.status < 400 \/ gw.status > 599) /\ gw.parse = "ok"

\* ... whose choices member is a non-empty array
HasChoice(gw) ==
    AnsweredOk(gw) /\ gw.body.top = "object" /\ gw.body.choices = "array"
    /\ gw.body.items # <<>>

\* ... a well-formed single-choice response
SingleChoice(gw) ==
    HasChoice(gw) /\ Len(gw.body.items) = 1 /\ gw.body.items[1].message
    /\ gw.body.items[1].has_content

\* C1: for every gateway outcome, initialize(), generate_content() and
\* create_ai_provider() return a value and let no exception escape to the caller.
C1_NoExceptionEscapes ==
    last.op \in {"initialize", "generate_content", "create_ai_provider"}
        => last.exc = "none" /\ last.ret # "raised"

\* C2: the factory returns an adapter only when its initialize() returned
\* True, that adapter is then available, and in every other case (unknown tag,
\* failed probe) the factory returns None.
C2_FactoryReturnsReadyOrNone ==
    last.op = "create_ai_provider" =>
        \/ /\ last.ret = "provider"
           /\ last.init_ret = True
           /\ last.self \in DOMAIN adapters
           /\ IsAvailable(adapters[last.self])
        \/ /\ last.ret = None
           /\ last.init_ret # True

\* C3: generate_content on an adapter on which no initialize() has succeeded
\* returns None and sends no request.
C3_UninitializedGenerateIsAbsent ==
    (last.op = "generate_content" /\ last.self \notin succeeded)
        => last.ret = None /\ last.sent = <<>> /\ last.exc = "none"

C3_Witness ==
    /\ last.op = "generate_content"
    /\ last.self \notin succeeded
    /\ last.self \in failedInit
    /\ adapters[last.self].session # NoSession

\* C4: for a backend name that lower-cased is none of the four tags, the
\* factory returns None, constructs no adapter, sends no request, raises nothing.
C4_UnknownTagIsAbsent ==
    (last.op = "create_ai_provider" /\ ExpectedVariant(last.provider_type) = None)
        => /\ last.ret = None
           /\ last.constructed = None
           /\ last.init_ret = None
           /\ last.sent = <<>>
           /\ last.exc = "none"
           /\ last.self = 0

C4_Witness ==
    /\ last.op = "create_ai_provider"
    /\ last.provider_type = <<"g", "e", "m", "i", "n", "i", " ">>
    /\ last.ret = None

\* C5: for each supported tag in any letter case and any credential, against
\* a gateway that answers the probe with a well-formed single choice, the
\* factory returns an available adapter of the matching variant.
C5_SupportedTagYieldsReadyAdapter ==
    (/\ last.op = "create_ai_provider"
     /\ ExpectedVariant(last.provider_type) # None
     /\ SingleChoice(last.gw))
        => /\ last.ret = "provider"
           /\ last.self \in DOMAIN adapters
           /\ adapters[last.self].cls = ExpectedVariant(last.provider_type)
           /\ IsAvailable(adapters[last.self])

C5_Witness ==
    /\ last.op = "create_ai_provider"
    /\ last.provider_type = <<"D", "E", "E", "P", "S", "E", "E", "K">>
    /\ SingleChoice(last.gw)
    /\ last.ret = "provider"
    /\ adapters[last.self].cls = "DeepSeekProvider"

\* the call recorded in last ran initialize() (directly or inside the factory)
\* and it returned True
InitializeReturnedTrue ==
    \/ last.op = "initialize" /\ last.ret = True
    \/ last.op = "create_ai_provider" /\ last.init_ret = True

\* C6: initialize() returns True only if the probe completed with a non-error
\* status and the parsed response holds a non-empty choices array, and the
\* ready flag is set in no other outcome.
C6_ReadyOnlyOnNonEmptyChoicesArray ==
    /\ InitializeReturnedTrue => HasChoice(last.gw)
    /\ (last.op \in {"initialize", "create_ai_provider"} /\ last.self # 0
        /\ ~HasChoice(last.gw) /\ last.self \notin succeeded)
            => ~adapters[last.self].initialized

\* C7: an adapter that is ready stays ready, whatever is called on it later
\* and whatever the gateway answers.
C7_ReadyStaysReady ==
    [][\A i \in DOMAIN adapters :
           IsAvailable(adapters[i]) => IsAvailable(adapters'[i])]_vars

C7_Witness ==
    /\ last.op = "initialize"
    /\ last.ret # True
    /\ last.self \in succeeded
    /\ IsAvailable(adapters[last.self])

\* C8 as stated: an instance on which initialize() has failed is never
\* available afterwards.
C8_FailedStaysNotReady ==
    \A i \in failedInit : ~IsAvailable(adapters[i])

\* C8, amended: an instance on which initialize() has failed is left not
\* available by that call and becomes available only by a later initialize()
\* call on that same instance that returns True; generate_content() and
\* is_available() never make it available.
C8_FailedReadyOnlyByRetry ==
    [][\A i \in failedInit' :
           (~IsAvailable(adapters[i]) /\ IsAvailable(adapters'[i]))
               => (last'.op = "initialize" /\ last'.self = i /\ last'.ret = True)]_vars

C8_Witness ==
    /\ last.op = "initialize"
    /\ last.ret = True
    /\ last.self \in failedInit
    /\ IsAvailable(adapters[last.self])

\* C9: is_available() returns True iff an initialize() call has succeeded on
\* the instance and its session exists; it sends no request and changes no
\* adapter state.
C9_IsAvailableIsPure ==
    /\ [](last.op = "is_available" =>
            /\ last.ret = True <=>
                   (last.self \in succeeded /\ adapters[last.self].session # NoSession)
            /\ last.ret \in {True, False}
            /\ last.sent = <<>>
            /\ last.exc = "none")
    /\ [][last'.op = "is_available" =>
            UNCHANGED <<adapters, sessions, failedInit, succeeded>>]_vars

C9_Witness ==
    /\ last.op = "is_available"
    /\ last.ret = True
    /\ last.self \in succeeded
    /\ last.self \in failedInit

\* C10: on a ready adapter, when the gateway answers with a non-error status
\* and a non-empty choices array, generate_content returns the message.content
\* of the first choice, whatever the prompt and however many choices follow.
C10_FirstChoiceTextReturned ==
    (/\ last.op = "generate_content"
     /\ last.self \in succeeded
     /\ HasChoice(last.gw)
     /\ last.gw.body.items[1].message
     /\ last.gw.body.items[1].has_content)
        => /\ last.ret = last.gw.body.items[1].content
           /\ last.exc = "none"
           /\ Len(last.sent) = 1
           /\ last.sent[1].messages[1].content = last.prompt

C10_Witness ==
    /\ last.op = "generate_content"
    /\ last.self \in succeeded
    /\ HasChoice(last.gw)
    /\ Len(last.gw.body.items) = 2
    /\ last.gw.body.items[2].has_content
    /\ last.gw.body.items[1].content # last.gw.body.items[2].content
    /\ last.ret = "Y"

\* C11: on a ready adapter, a non-error answer whose choices array is empty
\* or missing makes generate_content return None.
C11_NoChoiceIsAbsent ==
    (/\ last.op = "generate_content"
     /\ last.self \in succeeded
     /\ AnsweredOk(last.gw)
     /\ ~HasChoice(last.gw))
        => /\ last.ret = None
           /\ last.exc = "none"

C11_Witness ==
    /\ last.op = "generate_content"
    /\ last.self \in succeeded
    /\ AnsweredOk(last.gw)
    /\ last.gw.body.top = "object"
    /\ last.gw.body.choices = "array"
    /\ last.gw.body.items = <<>>
    /\ last.ret = None

\* C12: when the gateway answers the probe with HTTP 401, initialize()
\* returns False and raises nothing, an adapter that was not ready is left
\* not ready, and create_ai_provider returns None.
C12_UnauthorizedProbeFails ==
    (last.gw.net = "response" /\ last.gw.status = 401) =>
        /\ last.op = "initialize" =>
              /\ last.ret = False
              /\ last.exc = "none"
              /\ last.self \notin succeeded => ~IsAvailable(adapters[last.self])
        /\ (last.op = "create_ai_provider" /\ ExpectedVariant(last.provider_type) # None) =>
              /\ last.init_ret = False
              /\ last.ret = None
              /\ last.exc = "none"
              /\ last.self = 0

C12_Witness ==
    /\ last.op = "create_ai_provider"
    /\ last.gw.net = "response"
    /\ last.gw.status = 401
    /\ last.constructed = "OpenAIProvider"
    /\ last.ret = None

\* the credential with its surrounding whitespace removed, for each of Credentials
Trimmed(api_key) ==
    CASE api_key = <<"k">> -> <<"k">>
      [] api_key = <<" ", "k", "\n">> -> <<"k">>

\* the Authorization header for a credential as the caller passed it
BearerHeader(api_key) == <<"B", "e", "a", "r", "e", "r", " ">> \o Trimmed(api_key)

\* C13: every request an adapter sends, probe or generation, carries the
\* referer header and Authorization "Bearer " followed by the trimmed
\* credential: the constructor stores the credential trimmed, the factory hands
\* it over as passed, the stored credential never changes, and each request
\* carries the stored one.
C13_RequestsCarryTrimmedBearer ==
    /\ [](/\ last.op = "__init__" =>
                adapters[last.self].api_key = Trimmed(last.api_key)
          /\ (last.op = "create_ai_provider" /\ last.sent # <<>>) =>
                \A n \in DOMAIN last.sent :
                    /\ last.sent[n].authorization = BearerHeader(last.api_key)
                    /\ last.sent[n].referer = "https://github.com/copilot"
          /\ (last.op = "create_ai_provider" /\ last.ret = "provider") =>
                adapters[last.self].api_key = Trimmed(last.api_key)
          /\ last.op \in {"initialize", "generate_content"} =>
                \A n \in DOMAIN last.sent :
                    /\ last.sent[n].authorization
                           = <<"B", "e", "a", "r", "e", "r", " ">>
                                 \o adapters[last.self].api_key
                    /\ last.sent[n].referer = "https://github.com/copilot")
    /\ [][\A i \in DOMAIN adapters : adapters'[i].api_key = adapters[i].api_key]_vars

C13_Witness ==
    /\ last.op = "create_ai_provider"
    /\ last.api_key = <<" ", "k", "\n">>
    /\ last.sent # <<>>
    /\ last.sent[1].authorization = <<"B", "e", "a", "r", "e", "r", " ", "k">>

C15_OnePostPerCall ==
    /\ [](/\ last.op = "initialize" => Len(last.sent) = 1
          /\ (last.op = "generate_content" /\ last.self \in succeeded)
                 => Len(last.sent) = 1)
    /\ [][(/\ last.op = "generate_content"
           /\ last'.op = "generate_content"
           /\ last'.self = last.self
           /\ last'.prompt = last.prompt
           /\ last.self \in succeeded)
             => Len(last'.sent) = 1]_vars

C15_Witness ==
    /\ last.op = "generate_content"
    /\ last.self \in succeeded
    /\ last.gw.net = "response"
    /\ last.gw.status = 500
    /\ Len(last.sent) = 1
    /\ last.ret = None

\* the first element of the choices array carries message.content
FirstChoiceHasContent(gw) ==
    HasChoice(gw) /\ gw.body.items[1].message /\ gw.body.items[1].has_content

\* C16 as stated: a response whose first choice lacks message.content makes
\* initialize() return False and generate_content() return None.
C16_FirstChoiceContentRequired ==
    (HasChoice(last.gw) /\ ~FirstChoiceHasContent(last.gw)) =>
        /\ last.op = "initialize" => last.ret = False
        /\ last.op = "create_ai_provider" => last.init_ret # True
        /\ last.op = "generate_content" => last.ret = None

\* C16, amended: generate_content() succeeds only on a non-empty choices
\* array whose first element carries message.content and returns None when
\* the first choice lacks it; initialize() does not read the first choice and
\* returns True for such a response.
C16_ContentRequiredByGenerateOnly ==
    /\ (last.op = "generate_content" /\ last.ret \notin {None, "raised"})
           => FirstChoiceHasContent(last.gw)
    /\ (HasChoice(last.gw) /\ ~FirstChoiceHasContent(last.gw)) =>
           /\ last.op = "generate_content" => (last.ret = None /\ last.exc = "none")
           /\ last.op = "initialize" => (last.ret = True /\ last.exc = "none")
           /\ (last.op = "create_ai_provider"
               /\ ExpectedVariant(last.provider_type) # None) => last.init_ret = True

C16_Witness ==
    /\ last.op = "initialize"
    /\ HasChoice(last.gw)
    /\ ~last.gw.body.items[1].message
    /\ last.ret = True
    /\ IsAvailable(adapters[last.self])

\* the class that made the requests of the last call
SenderClass ==
    IF last.op = "create_ai_provider" THEN last.constructed
    ELSE adapters[last.self].cls

\* C17: the tag-to-model mapping is total and single-valued: each of the four
\* tags resolves to one adapter class, and every request of that adapter, the
\* probe and each generation, names the model the sidebar shows for the backend.
C17_OneModelPerBackend ==
    /\ \A tag \in SupportedTags : ProviderClassFor(tag) \in AdapterClasses
    /\ \A cls \in AdapterClasses :
           \E label \in DOMAIN provider_models : ProviderClassFor(Lower(label)) = cls
    /\ last.sent # <<>> =>
           \A n \in DOMAIN last.sent, label \in DOMAIN provider_models :
               ProviderClassFor(Lower(label)) = SenderClass
                   => last.sent[n].model = provider_models[label]

C17_Witness ==
    /\ last.op = "generate_content"
    /\ last.sent # <<>>
    /\ adapters[last.self].cls = "DeepSeekProvider"
    /\ last.sent[1].model = "deepseek/deepseek-chat-v3.1"

AllFiveFields == {"model", "messages", "temperature", "max_tokens", "top_p"}

\* C18 as stated: the body of every request, probe or generation, holds the
\* fields model, messages, temperature, max_tokens and top_p.
C18_EveryBodyHasFiveFields ==
    \A n \in DOMAIN last.sent : AllFiveFields \subseteq last.sent[n].keys

\* C18, amended: the body of every generation request holds model, messages,
\* temperature, max_tokens and top_p; the body of the probe holds model,
\* messages, temperature and max_tokens, and no top_p.
C18_ProbeBodyLacksTopP ==
    /\ last.op = "generate_content" =>
           \A n \in DOMAIN last.sent : AllFiveFields \subseteq last.sent[n].keys
    /\ last.op \in {"initialize", "create_ai_provider"} =>
           \A n \in DOMAIN last.sent :
               last.sent[n].keys = {"model", "messages", "temperature", "max_tokens"}

C18_Witness ==
    /\ last.op = "generate_content"
    /\ last.sent # <<>>
    /\ adapters[last.self].cls = "GeminiProvider"
    /\ "top_p" \in last.sent[1].keys

\* C19: the probe of every adapter sends the literal prompt "Test" as a
\* single user message with max_tokens 10, whatever the caller passed before
\* and whatever the backend's generation budget.
C19_ProbeIsFixed ==
    last.op \in {"initialize", "create_ai_provider"} =>
        \A n \in DOMAIN last.sent :
            /\ last.sent[n].messages = <<[role |-> "user", content |-> "Test"]>>
            /\ last.sent[n].max_tokens = 10

C19_Witness ==
    /\ last.op = "initialize"
    /\ last.self \in succeeded
    /\ adapters[last.self].cls = "NemotronProvider"
    /\ last.sent # <<>>
    /\ last.sent[1].max_tokens = 10

\* C20: generation requests of the Gemini and OpenAI adapters use temperature
\* 0.3, max_tokens 300, top_p 0.8; those of the DeepSeek and Nemotron adapters
\* use 0.7, 2000, 0.95; every probe uses temperature 0.3 (hundredths here).
C20_SamplingParameters ==
    \A n \in DOMAIN last.sent :
        /\ last.op \in {"initialize", "create_ai_provider"} =>
               last.sent[n].temperature = 30
        /\ (last.op = "generate_content"
            /\ SenderClass \in {"GeminiProvider", "OpenAIProvider"}) =>
               /\ last.sent[n].temperature = 30
               /\ last.sent[n].max_tokens = 300
               /\ last.sent[n].top_p = 80
        /\ (last.op = "generate_content"
            /\ SenderClass \in {"DeepSeekProvider", "NemotronProvider"}) =>
               /\ last.sent[n].temperature = 70
               /\ last.sent[n].max_tokens = 2000
               /\ last.sent[n].top_p = 95

C20_Witness ==
    /\ last.op = "generate_content"
    /\ last.sent # <<>>
    /\ adapters[last.self].cls = "NemotronProvider"
    /\ last.sent[1].temperature = 70

\* initialize() has been called on instance i (directly or by the factory)
InitializeCalled(i) == i \in succeeded \cup failedInit

C22_ReadyImpliesSession ==
    /\ [](\A i \in DOMAIN adapters :
             /\ adapters[i].initialized => adapters[i].session # NoSession
             /\ IsAvailable(adapters[i]) <=> adapters[i].initialized)
    /\ [](last.op = "is_available" =>
             (last.ret = True <=> adapters[last.self].initialized))
    /\ [][last'.op = "generate_content" =>
             \A i \in DOMAIN adapters :
                 /\ adapters'[i].initialized = adapters[i].initialized
                 /\ adapters'[i].session = adapters[i].session
                 /\ adapters'[i].api_key = adapters[i].api_key]_vars

C22_Witness ==
    /\ last.op = "generate_content"
    /\ last.ret = "raised"
    /\ adapters[last.self].initialized
    /\ IsAvailable(adapters[last.self])

\* the tables after one population of an empty file
Populated == PopulateTransaction(EmptyTables).tables

\* C27: however many times NyayAIDatabase is constructed on the same file, and
\* however the constructions overlap, the file holds either nothing yet or
\* exactly what one construction leaves: the 10 sample sections, with
\* pairwise-distinct section numbers, and the 3 templates; once the rows are
\* there no later construction changes them, and every constructed instance
\* sees them.
C27_PopulationIdempotent ==
    /\ [](db = EmptyTables \/ db = Populated)
    /\ [](conns.instances > 0 => db = Populated)
    /\ [](/\ Len(Populated.ipc_sections) = 10
          /\ Len(Populated.legal_templates) = 3
          /\ \A i, j \in DOMAIN Populated.ipc_sections :
                 Populated.ipc_sections[i].section_number
                     = Populated.ipc_sections[j].section_number => i = j)
    /\ [][db = Populated => db' = db]_vars

C27_Witness ==
    /\ conns.attempts = MaxConstructions
    /\ conns.instances >= 2
    /\ \E c \in Constructors : conns.pc[c] = "raised"
    /\ db = Populated

\* query occurs in text as a run of consecutive characters, the case of the
\* ASCII letters aside
OccursIn(query, text) ==
    \E k \in 0..(Len(text) - Len(query)) :
        \A i \in 1..Len(query) : NoCase(text[k + i]) = NoCase(query[i])

\* the stored section occurs at some place of the rows returned
Returned(row, rows) ==
    \E i \in DOMAIN rows : rows[i].section = row.section_number

\* C28: search_ipc_sections(query) returns exactly the stored sections in
\* whose keywords, section number or title the whole query occurs as a
\* substring (letter case aside), each once, in the order of their section
\* numbers, and get_all_ipc_sections() returns every stored section.
C28_SearchReturnsSubstringMatches ==
    /\ found.op = "search_ipc_sections" =>
           /\ \A i \in DOMAIN db.ipc_sections :
                  Returned(db.ipc_sections[i], found.rows)
                      <=> \/ OccursIn(found.query, db.ipc_sections[i].keywords)
                          \/ OccursIn(found.query, db.ipc_sections[i].section_number)
                          \/ OccursIn(found.query, db.ipc_sections[i].title)
           /\ \A i, j \in DOMAIN found.rows :
                  i < j => TextLess(found.rows[i].section, found.rows[j].section)
    /\ found.op = "get_all_ipc_sections" =>
           \A i \in DOMAIN db.ipc_sections : Returned(db.ipc_sections[i], found.rows)

\* C29: extract_text_from_pdf never raises; success is true only with a
\* non-blank text; the pages processed number at most max_pages (any number
\* when max_pages is None) and at most the pages of the document; and in
\* preview mode no page contributes more than its first 1000 characters.
C29_ExtractionBounded ==
    pdf.op = "extract_text_from_pdf" =>
        /\ ~pdf.raised
        /\ pdf.success => (pdf.text.kind = "extracted" /\ ~pdf.text.blank)
        /\ ~pdf.max_pages.none => Len(pdf.pages) <= pdf.max_pages.pages
        /\ Len(pdf.pages) <= pdf.total_pages
        /\ \A i \in DOMAIN pdf.pages :
               /\ pdf.pages[i].page = i
               /\ pdf.pages[i].chars <= pdf.document.pages[i].chars
               /\ pdf.preview_mode => pdf.pages[i].chars <= 1000

\* the session's handler exists and is online
HandlerOnline ==
    /\ IsPresent(session_state.ai_handler)
    /\ is_online(ValueOf(session_state.ai_handler))

\* C23: after a Configure API Key action whose update_configuration returned
\* true the session flag api_key_configured is true; equivalently, in every
\* state a session reaches, an online handler implies api_key_configured.
C23_OnlineImpliesConfigured ==
    /\ (run.trigger = "configure" /\ run.update_configuration = True)
           => session_state.api_key_configured
    /\ HandlerOnline => session_state.api_key_configured

\* the run ended at the st.rerun() of the Reset API Key button
ResetDone(r) == r.trigger = "reset" /\ r.at = 183

\* C24: the session's handler is created only when the session has none, and
\* a run that is neither the first of a new session nor a reset leaves the
\* handler object the same; the handler is never None when the Configure
\* action reaches update_configuration; a Reset API Key action leaves
\* api_key_configured false and the handler None; and the run after it, once
\* its init_components succeeded, has created a handler never used before
\* that is not configured.
C24_HandlerCreatedOnceUntilReset ==
    /\ [][/\ run'.created =>
                 (run'.trigger = "load" \/ ~IsPresent(session_state.ai_handler))
          /\ (IsPresent(session_state.ai_handler) /\ run'.trigger # "load"
                  /\ ~ResetDone(run'))
                 => /\ IsPresent(session_state'.ai_handler)
                    /\ ValueOf(session_state'.ai_handler).id
                           = ValueOf(session_state.ai_handler).id
                    /\ ~run'.created
          /\ ResetDone(run') =>
                 /\ ~session_state'.api_key_configured
                 /\ ~IsPresent(session_state'.ai_handler)
          /\ (ResetDone(run) /\ run'.at # 78) =>
                 /\ run'.created
                 /\ IsPresent(session_state'.ai_handler)
                 /\ ValueOf(session_state'.ai_handler).id > run.handlers
                 /\ ~is_online(ValueOf(session_state'.ai_handler))
                 /\ ~session_state'.api_key_configured]_vars
    /\ [](run.update_configuration # "AttributeError")
    /\ [](run.trigger = "configure" /\ run.update_configuration # "none"
              => IsPresent(session_state.ai_handler))

C24_Witness ==
    /\ run.trigger = "rerun"
    /\ run.after = 183
    /\ run.created
    /\ run.handlers >= 2
    /\ IsPresent(session_state.ai_handler)
    /\ ~is_online(ValueOf(session_state.ai_handler))
    /\ ~session_state.api_key_configured

\* the triggers that are runs of the script (the others are calls of
\* navigate_to_page and update_ai_handler, which a run of the script follows)
ScriptRuns == {"load", "rerun", "select", "configure", "reset", "ask", "clear_chat"}

\* at the dispatch of main() current_page is one of the six page options,
\* and the one renderer called is the renderer of that page
DispatchedOnPageOption ==
    IsPresent(run.dispatched) =>
        /\ IsPageOption(ValueOf(run.dispatched))
        /\ run.renderers = <<ValueOf(run.dispatched)>>

\* C25 (as stated): at the dispatch current_page is always one of the six
\* page options, whatever it held before, and exactly one page renderer runs
\* in every run of the script (of those whose init_components succeeded).
C25_OneRendererPerRun ==
    /\ DispatchedOnPageOption
    /\ (run.trigger \in ScriptRuns /\ run.at # 78) => Len(run.renderers) = 1

\* C25 (amended): at the dispatch current_page is always one of the six page
\* options, whatever it held before, so a run of the script that reaches the
\* dispatch calls exactly one page renderer, that of current_page; a run that
\* ends before the dispatch calls none.
C25_OneRendererPerDispatch ==
    /\ DispatchedOnPageOption
    /\ ~IsPresent(run.dispatched) => run.renderers = <<>>
    /\ (run.trigger \in ScriptRuns /\ run.ended = "rendered")
           => IsPresent(run.dispatched)

C25_Witness ==
    /\ run.trigger = "rerun"
    /\ ~IsPageOption(run.page_before)
    /\ IsPresent(run.dispatched)
    /\ run.renderers = <<Home>>

\* the page each 'page' value of RawPages names once decoded, exactly or
\* after trimming; Absent for a value that names none
NamedPage(raw) ==
    CASE raw = IPCSections -> Present(IPCSections)
      [] raw = <<"[speech]", "+", "L", "e", "g", "a", "l", "+", "Q", "%", "2", "6", "A">>
             -> Present(LegalQA)
      [] raw = <<"[page]", "%", "2", "0", "D", "o", "c", "u", "m", "e", "n", "t", "%", "2",
                 "0", "A", "n", "a", "l", "y", "s", "i", "s">>
             -> Present(DocumentAnalysis)
      [] raw = <<" ">> \o LegalTemplates \o <<"\n">> -> Present(LegalTemplates)
      [] OTHER -> Absent

\* C26: a run of the script that finds a 'page' query parameter makes
\* current_page the page the decoded value names (exactly, or after trimming
\* whitespace), and leaves current_page as it was when the value names no
\* page option; either way it clears the parameters and ends with st.rerun()
\* before anything is rendered, so no later run finds the parameter again;
\* a run that finds no parameter does none of this.
C26_QueryParamNavigation ==
    /\ (run.trigger \in ScriptRuns /\ run.at # 78 /\ IsPresent(run.param)) =>
           /\ run.ended = "rerun" /\ run.at = 101
           /\ query_params = Absent
           /\ run.controls = {} /\ run.renderers = <<>>
           /\ session_state.current_page =
                  IF IsPresent(NamedPage(ValueOf(run.param)))
                  THEN ValueOf(NamedPage(ValueOf(run.param)))
                  ELSE run.page_before
           /\ session_state.current_page # run.page_before
                  => IsPageOption(session_state.current_page)
    /\ run.at = 101 => IsPresent(run.param)
    /\ (run.trigger = "rerun" /\ run.after = 101) => ~IsPresent(run.param)

C26_Witness ==
    /\ run.at = 101
    /\ run.param = Present(<<" ">> \o LegalTemplates \o <<"\n">>)
    /\ run.page_before = Home
    /\ session_state.current_page = LegalTemplates
    /\ query_params = Absent

\* the run is a submission of a non-empty question on the Legal Q&A page
Asked(r) == r.trigger = "ask" /\ r.user_query # <<>>

\* the entries of the session's chat history
ChatEntries(ss) == IF IsPresent(ss.chat_history) THEN ValueOf(ss.chat_history) ELSE <<>>

\* C30 (as stated): every submitted non-empty question appends exactly one
\* {query, response} entry to the session chat history and saves exactly one
\* row to query_history, with at most the first three matching sections as
\* its context.
C30_OneEntryOneRow ==
    Asked(run) =>
        /\ run.appended = 1
        /\ run.saved = 1
        /\ Len(run.context) <= 3

\* C30 (amended): every submitted non-empty question appends exactly one
\* {query, response} entry to the session chat history, with at most the
\* first three sections the search returned as its context, and saves
\* exactly one row with that query and response to query_history unless the
\* INSERT fails with a database error, in which case no row is saved and the
\* entry is appended all the same; an empty question changes neither; Clear
\* Chat History empties the chat history and leaves query_history untouched.
C30_OneEntryAtMostOneRow ==
    [][/\ Asked(run') =>
              /\ ChatEntries(session_state') =
                     Append(ChatEntries(session_state),
                            [query |-> run'.user_query, response |-> run'.response])
              /\ run'.response \in {"text", "fallback", "offline"}
              /\ Len(run'.context) <= 3
              /\ LET rows == SearchRows(db.ipc_sections, run'.user_query)
                 IN  /\ Len(run'.context) <= Len(rows)
                     /\ Len(run'.context) < 3 => Len(run'.context) = Len(rows)
                     /\ run'.context = SubSeq(rows, 1, Len(run'.context))
              /\ IF run'.save = "ok"
                 THEN /\ Len(db'.query_history) = Len(db.query_history) + 1
                      /\ SubSeq(db'.query_history, 1, Len(db.query_history))
                             = db.query_history
                      /\ db'.query_history[Len(db'.query_history)].query = run'.user_query
                      /\ db'.query_history[Len(db'.query_history)].response
                             = run'.response
                 ELSE db'.query_history = db.query_history
       /\ (run'.trigger = "ask" /\ run'.user_query = <<>>) =>
              /\ ChatEntries(session_state') = ChatEntries(session_state)
              /\ db'.query_history = db.query_history
       /\ run'.trigger = "clear_chat" =>
              /\ session_state'.chat_history = Present(<<>>)
              /\ db'.query_history = db.query_history]_vars

C30_Witness ==
    /\ Asked(run)
    /\ run.save = "error"
    /\ run.response = "text"
    /\ Len(run.context) = 3
    /\ Len(ChatEntries(session_state)) = 2
    /\ Len(db.query_history) = 1

====
